---- MODULE Spec2Model ----
(***************************************************************************)
(* Signed-request envelopes (package signedrequest) on top of the          *)
(* certificate-rotation verifier (package signature).                      *)
(*                                                                         *)
(* Strings are sequences of one-character strings, so that joining,        *)
(* sorting and header-name canonicalisation are computed character by      *)
(* character as the Go code computes them.  Times are counted in ticks,    *)
(* TicksPerSecond ticks to the second, so that an expiration has a         *)
(* sub-second part.                                                        *)
(***************************************************************************)
EXTENDS Integers, Sequences, FiniteSets, TLC

VARIABLES
    env,        \* the producer's SignedRequest
    signed,     \* the fields of env when Sign last stored a signature, or None
    certs,      \* the certificate list appengine.PublicCertificates publishes
    now,        \* time.Now(), in ticks
    muts,       \* number of field assignments made to env so far
    res,        \* the outcome of the last call (Sign, Verify, VerifyBytes, ...)
    req,        \* the http.Request made from env by HTTPRequest, or None
    parsed,     \* the SignedRequest ParseHTTPRequest made from req, or None
    payload,    \* the bytes handed to VerifyBytes
    sigBytes,   \* the signature handed to VerifyBytes
    twin,       \* a second envelope built from the same logical values as env
    hist,       \* the two most recent verification calls, oldest first
    queue,      \* the pull task queue: the tasks in it, by task id
    run,        \* where Queue.Run stands: its position, leased batch and return value
    ctx,        \* c.Err() of the context handed to Queue.Run
    attempts,   \* what Queue.Run did with each task it took out of a lease
    envs,       \* the envelope of each concurrent caller
    calls       \* the call each concurrent caller has in progress

vars == <<env, signed, certs, now, muts, res, req, parsed, payload, sigBytes, twin,
          hist, queue, run, ctx, attempts, envs, calls>>

envelopeVars == <<env, signed, muts>>
wireVars == <<req, parsed>>
bytesVars == <<payload, sigBytes>>
canonVars == <<twin>>
histVars == <<hist>>
queueVars == <<queue, run, ctx, attempts>>
concVars == <<envs, calls>>
restVars == <<histVars, queueVars, concVars>>

(***************************************************************************)
(* Bounds of the model.                                                    *)
(***************************************************************************)
TicksPerSecond == 2
MaxTime == 2
MaxCerts == 2
MaxMutations == 2

(***************************************************************************)
(* Characters and strings.                                                 *)
(***************************************************************************)
Uppers == << "A","B","C","D","E","F","G","H","I","J","K","L","M",
             "N","O","P","Q","R","S","T","U","V","W","X","Y","Z" >>
Lowers == << "a","b","c","d","e","f","g","h","i","j","k","l","m",
             "n","o","p","q","r","s","t","u","v","w","x","y","z" >>
Digits == << "0","1","2","3","4","5","6","7","8","9" >>

\* The characters in use, in ascending byte order.
Ascii == << "\n", " ", "!", ",", "-", "/" >> \o Digits \o << ":" >> \o Uppers \o Lowers

Range(s) == { s[i] : i \in DOMAIN s }

IndexIn(c, s) == CHOOSE i \in DOMAIN s : s[i] = c

UpperSet == Range(Uppers)
LowerSet == Range(Lowers)
DigitSet == Range(Digits)

\* The rank of every byte of Ascii.
OrdOf == [ c \in Range(Ascii) |-> IndexIn(c, Ascii) ]

\* The rank of a byte; 0 for an element that stands for bytes outside Ascii.
Ord(c) == IF c \in DOMAIN OrdOf THEN OrdOf[c] ELSE 0

\* Byte-wise s < t, the order of sort.Strings.
RECURSIVE Less(_, _)
Less(s, t) ==
    IF t = << >> THEN FALSE
    ELSE IF s = << >> THEN TRUE
    ELSE IF Head(s) = Head(t) THEN Less(Tail(s), Tail(t))
    ELSE Ord(Head(s)) < Ord(Head(t))

\* strings.Join(parts, sep)
RECURSIVE Join(_, _)
Join(parts, sep) ==
    IF parts = << >> THEN << >>
    ELSE IF Len(parts) = 1 THEN parts[1]
    ELSE parts[1] \o sep \o Join(Tail(parts), sep)

\* strings.Split(s, sep) for a separator of one character: the pieces of s
\* between the occurrences of sep.
RECURSIVE Split(_, _)
Split(s, sep) ==
    IF \A i \in DOMAIN s : s[i] # sep THEN << s >>
    ELSE LET i == CHOOSE j \in DOMAIN s : s[j] = sep /\ \A k \in 1 .. j - 1 : s[k] # sep
         IN  << SubSeq(s, 1, i - 1) >> \o Split(SubSeq(s, i + 1, Len(s)), sep)

\* Insertion of one string into an ascending list.
RECURSIVE Insert(_, _)
Insert(x, sorted) ==
    IF sorted = << >> THEN << x >>
    ELSE IF Less(Head(sorted), x) THEN << Head(sorted) >> \o Insert(x, Tail(sorted))
    ELSE << x >> \o sorted

\* sort.Strings(list)
RECURSIVE SortStrings(_)
SortStrings(list) ==
    IF list = << >> THEN << >>
    ELSE Insert(Head(list), SortStrings(Tail(list)))

\* strconv.FormatInt(n, 10)
RECURSIVE FormatNat(_)
FormatNat(n) ==
    IF n < 10 THEN << Digits[n + 1] >>
    ELSE FormatNat(n \div 10) \o << Digits[(n % 10) + 1] >>

FormatInt(n) == IF n < 0 THEN << "-" >> \o FormatNat(0 - n) ELSE FormatNat(n)

\* time.Time.Unix(): whole seconds, the sub-second part dropped.
Unix(t) == t \div TicksPerSecond

\* A byte that may appear in a header field name (an HTTP token character).
TokenChars == UpperSet \cup LowerSet \cup DigitSet \cup {"-", "!"}

IsTokenChar(c) == c \in TokenChars

UpperOf == [ c \in LowerSet |-> Uppers[IndexIn(c, Lowers)] ]
LowerOf == [ c \in UpperSet |-> Lowers[IndexIn(c, Uppers)] ]

ToUpper(c) == IF c \in LowerSet THEN UpperOf[c] ELSE c
ToLower(c) == IF c \in UpperSet THEN LowerOf[c] ELSE c

\* http.CanonicalHeaderKey(k): first letter and letters after a hyphen in upper
\* case, the others in lower case; a key with a non-token byte is left alone.
CanonicalHeaderKey(k) ==
    IF \E i \in DOMAIN k : ~IsTokenChar(k[i]) THEN k
    ELSE [ i \in DOMAIN k |->
             IF i = 1 \/ k[i - 1] = "-" THEN ToUpper(k[i]) ELSE ToLower(k[i]) ]

(***************************************************************************)
(* The envelope and its canonical string.                                  *)
(***************************************************************************)
None == [ none |-> TRUE ]

\* The orders in which a range over the map m may visit its keys.
Orders(m) ==
    { o \in [ 1 .. Cardinality(DOMAIN m) -> DOMAIN m ] :
        \A i, j \in DOMAIN o : i # j => o[i] # o[j] }

\* One of these orders.
AnyOrder(p) == CHOOSE o \in Orders(p.Headers) : TRUE

\* The header lines in the order the range loop appended them.
HeaderLines(p, order) ==
    [ i \in DOMAIN order |->
        CanonicalHeaderKey(order[i]) \o << ":", " " >> \o Join(p.Headers[order[i]], << "," >>) ]

\* A canonical string whose header lines stay in the order of the range loop.
signingStringUnsorted(p, order) ==
    Join(<< p.Method, p.URL, FormatInt(Unix(p.Expiration)) >> \o HeaderLines(p, order),
         << "\n" >>)

\* A canonical string that leaves the headers out.
signingStringNoHeaders(p, order) ==
    Join(<< p.Method, p.URL, FormatInt(Unix(p.Expiration)) >>, << "\n" >>)

\* A canonical string with a newline after every component, the last included.
signingStringTrailingNewline(p, order) ==
    Join(<< p.Method, p.URL, FormatInt(Unix(p.Expiration)) >>
           \o SortStrings(HeaderLines(p, order)),
         << "\n" >>) \o << "\n" >>

\* SignedRequest.signingString, the map being ranged over in the given order.
signingString(p, order) ==
    Join(<< p.Method, p.URL, FormatInt(Unix(p.Expiration)) >>
           \o SortStrings(HeaderLines(p, order)),
         << "\n" >>)

(***************************************************************************)
(* The platform: the sign oracle, SHA-256, RSA PKCS#1 v1.5 and base64.     *)
(* The hash is collision free and a signature is determined by the key     *)
(* and the digest; byte strings and texts are sequences like the strings.  *)
(***************************************************************************)
Keys == { 1, 2 }

\* The key the app's sign oracle holds.
SignerKey == 1

\* crypto.SHA256 over the bytes.
SHA256(bytes) == << "sha256" >> \o bytes

\* The signature appengine.SignBytes returns for the bytes under key k.
SignBytes(k, bytes) == << "rsa", Digits[k + 1] >> \o SHA256(bytes)

\* rsa.VerifyPKCS1v15(pubkey, SHA256, hashed, sig) = nil
VerifyPKCS1v15(pubkey, hashed, sig) == sig = << "rsa", Digits[pubkey + 1] >> \o hashed

\* base64.StdEncoding.EncodeToString
EncodeToString(bytes) == << "b64" >> \o bytes

\* base64.StdEncoding.DecodeString: the empty text decodes to no bytes, an
\* encoded text to its bytes, any other text is a CorruptInputError.
DecodeString(text) ==
    IF text = << >> THEN [ ok |-> TRUE, bytes |-> << >> ]
    ELSE IF Head(text) = "b64" THEN [ ok |-> TRUE, bytes |-> Tail(text) ]
    ELSE [ ok |-> FALSE, bytes |-> << >> ]

\* A published certificate: whether its Data holds a PEM block, whether the
\* block parses as X.509, whether the public key is an RSA key, and the key.
Certificate(pem, x509, rsa, key) == [ pem |-> pem, x509 |-> x509, rsa |-> rsa, key |-> key ]

RSACert(k) == Certificate(TRUE, TRUE, TRUE, k)
BadPEM     == Certificate(FALSE, FALSE, FALSE, 0)
BadX509    == Certificate(TRUE, FALSE, FALSE, 0)
NotRSA     == Certificate(TRUE, TRUE, FALSE, 0)

(***************************************************************************)
(* package signature: VerifyBytes.                                         *)
(***************************************************************************)
Nil == "nil"
ErrNoPublicCertificates == "ErrNoPublicCertificates"
ErrPemDecodeFailure == "ErrPemDecodeFailure"
ErrNotRSAPublicKey == "ErrNotRSAPublicKey"
ErrX509Parse == "x509.ParseCertificate error"
ErrVerification == "rsa.ErrVerification"
ErrFetch == "PublicCertificates error"
ErrCorruptInput == "base64.CorruptInputError"
ErrExpired == "ErrExpired"
ErrSignBytes == "SignBytes error"

\* What one pass of the loop body does with one certificate: the error it
\* records (Nil when the key validates the signature) and whether it got as
\* far as the RSA check.
TryCertificate(cert, hashed, sig) ==
    IF ~cert.pem THEN [ err |-> ErrPemDecodeFailure, rsa |-> 0 ]
    ELSE IF ~cert.x509 THEN [ err |-> ErrX509Parse, rsa |-> 0 ]
    ELSE IF ~cert.rsa THEN [ err |-> ErrNotRSAPublicKey, rsa |-> 0 ]
    ELSE IF ~VerifyPKCS1v15(cert.key, hashed, sig) THEN [ err |-> ErrVerification, rsa |-> 1 ]
    ELSE [ err |-> Nil, rsa |-> 1 ]

\* A loop that returns at the first certificate that fails.
ScanAbortEarly(list, i, lastErr, hashed, sig, examined, rsaCalls) ==
    IF i > Len(list)
    THEN [ err |-> lastErr, examined |-> examined, rsaCalls |-> rsaCalls ]
    ELSE LET t == TryCertificate(list[i], hashed, sig)
         IN  [ err |-> t.err, examined |-> examined + 1, rsaCalls |-> rsaCalls + t.rsa ]

\* A loop that keeps the first failure it recorded instead of the last.
RECURSIVE ScanKeepFirstError(_, _, _, _, _, _, _)
ScanKeepFirstError(list, i, lastErr, hashed, sig, examined, rsaCalls) ==
    IF i > Len(list)
    THEN [ err |-> lastErr, examined |-> examined, rsaCalls |-> rsaCalls ]
    ELSE LET t == TryCertificate(list[i], hashed, sig) IN
         IF t.err = Nil
         THEN [ err |-> Nil, examined |-> examined + 1, rsaCalls |-> rsaCalls + t.rsa ]
         ELSE ScanKeepFirstError(list, i + 1,
                                 IF lastErr = ErrNoPublicCertificates THEN t.err ELSE lastErr,
                                 hashed, sig, examined + 1, rsaCalls + t.rsa)

\* The loop over certs from index i on, lastErr being the error recorded so
\* far, examined and rsaCalls counting the work done.
RECURSIVE ScanCertificates(_, _, _, _, _, _, _)
ScanCertificates(list, i, lastErr, hashed, sig, examined, rsaCalls) ==
    IF i > Len(list)
    THEN [ err |-> lastErr, examined |-> examined, rsaCalls |-> rsaCalls ]
    ELSE LET t == TryCertificate(list[i], hashed, sig) IN
         IF t.err = Nil
         THEN [ err |-> Nil, examined |-> examined + 1, rsaCalls |-> rsaCalls + t.rsa ]
         ELSE ScanCertificates(list, i + 1, t.err, hashed, sig,
                               examined + 1, rsaCalls + t.rsa)

\* VerifyBytes with lastErr starting out nil.
VerifyBytesNilDefault(published, fetchOk, bytes, sig) ==
    IF ~fetchOk
    THEN [ err |-> ErrFetch, fetches |-> 1, examined |-> 0, rsaCalls |-> 0 ]
    ELSE LET r == ScanCertificates(published, 1, Nil, SHA256(bytes), sig, 0, 0)
         IN  [ err |-> r.err, fetches |-> 1, examined |-> r.examined, rsaCalls |-> r.rsaCalls ]

\* VerifyBytes answering from the set the previous call fetched, when there
\* is one, instead of fetching.
VerifyBytesCached(published, fetchOk, bytes, sig) ==
    IF hist # << >> /\ hist[Len(hist)].fetchOk
    THEN LET r == ScanCertificates(hist[Len(hist)].published, 1, ErrNoPublicCertificates,
                                   SHA256(bytes), sig, 0, 0)
         IN  [ err |-> r.err, fetches |-> 0, examined |-> r.examined, rsaCalls |-> r.rsaCalls ]
    ELSE IF ~fetchOk
    THEN [ err |-> ErrFetch, fetches |-> 1, examined |-> 0, rsaCalls |-> 0 ]
    ELSE LET r == ScanCertificates(published, 1, ErrNoPublicCertificates,
                                   SHA256(bytes), sig, 0, 0)
         IN  [ err |-> r.err, fetches |-> 1, examined |-> r.examined, rsaCalls |-> r.rsaCalls ]

\* VerifyBytes fetching a second time when the first fetch failed.
VerifyBytesRetriesFetch(published, fetchOk, bytes, sig) ==
    LET r == ScanCertificates(published, 1, ErrNoPublicCertificates, SHA256(bytes), sig, 0, 0)
    IN  [ err |-> r.err, fetches |-> IF fetchOk THEN 1 ELSE 2,
          examined |-> r.examined, rsaCalls |-> r.rsaCalls ]

\* VerifyBytes(c, bytes, sig); published is what PublicCertificates would
\* return and fetchOk whether the call succeeds.
VerifyBytes(published, fetchOk, bytes, sig) ==
    IF ~fetchOk
    THEN [ err |-> ErrFetch, fetches |-> 1, examined |-> 0, rsaCalls |-> 0 ]
    ELSE LET r == ScanCertificates(published, 1, ErrNoPublicCertificates,
                                   SHA256(bytes), sig, 0, 0)
         IN  [ err |-> r.err, fetches |-> 1, examined |-> r.examined, rsaCalls |-> r.rsaCalls ]

(***************************************************************************)
(* package signedrequest: Sign and Verify.                                 *)
(***************************************************************************)
\* Verify without the freshness check.
VerifyNoExpiry(p, published, fetchOk, t, order) ==
    LET d == DecodeString(p.Signature) IN
    IF ~d.ok
    THEN [ err |-> ErrCorruptInput, fetches |-> 0, examined |-> 0, rsaCalls |-> 0 ]
    ELSE VerifyBytes(published, fetchOk, signingString(p, order), d.bytes)

\* Verify comparing whole seconds instead of instants.
VerifyWholeSeconds(p, published, fetchOk, t, order) ==
    LET d == DecodeString(p.Signature) IN
    IF ~d.ok
    THEN [ err |-> ErrCorruptInput, fetches |-> 0, examined |-> 0, rsaCalls |-> 0 ]
    ELSE LET v == VerifyBytes(published, fetchOk, signingString(p, order), d.bytes) IN
         IF v.err # Nil THEN v
         ELSE IF Unix(t) > Unix(p.Expiration) THEN [ v EXCEPT !.err = ErrExpired ]
         ELSE v

\* Verify checking freshness before the signature.
VerifyExpiryFirst(p, published, fetchOk, t, order) ==
    LET d == DecodeString(p.Signature) IN
    IF ~d.ok
    THEN [ err |-> ErrCorruptInput, fetches |-> 0, examined |-> 0, rsaCalls |-> 0 ]
    ELSE IF t > p.Expiration
    THEN [ err |-> ErrExpired, fetches |-> 0, examined |-> 0, rsaCalls |-> 0 ]
    ELSE VerifyBytes(published, fetchOk, signingString(p, order), d.bytes)

\* SignedRequest.Verify at time t.
Verify(p, published, fetchOk, t, order) ==
    LET d == DecodeString(p.Signature) IN
    IF ~d.ok
    THEN [ err |-> ErrCorruptInput, fetches |-> 0, examined |-> 0, rsaCalls |-> 0 ]
    ELSE LET v == VerifyBytes(published, fetchOk, signingString(p, order), d.bytes) IN
         IF v.err # Nil THEN v
         ELSE IF t > p.Expiration THEN [ v EXCEPT !.err = ErrExpired ]
         ELSE v

\* A Sign that empties the Signature field when the oracle fails.
SignClearsOnFailure(p, oracleOk, order) ==
    IF ~oracleOk
    THEN [ env |-> [ p EXCEPT !.Signature = << >> ], err |-> ErrSignBytes, oracleCalls |-> 1 ]
    ELSE [ env |-> [ p EXCEPT !.Signature =
                       EncodeToString(SignBytes(SignerKey, signingString(p, order))) ],
           err |-> Nil, oracleCalls |-> 1 ]

\* SignedRequest.Sign: the envelope after the call, the error returned and
\* the number of calls made to appengine.SignBytes.
Sign(p, oracleOk, order) ==
    IF ~oracleOk
    THEN [ env |-> p, err |-> ErrSignBytes, oracleCalls |-> 1 ]
    ELSE [ env |-> [ p EXCEPT !.Signature =
                       EncodeToString(SignBytes(SignerKey, signingString(p, order))) ],
           err |-> Nil, oracleCalls |-> 1 ]

(***************************************************************************)
(* The values the model draws from.                                        *)
(***************************************************************************)
PUT == << "P", "U", "T" >>
GET == << "G", "E", "T" >>

Methods == { PUT, GET }
URLs == { << "/" >>, << "/", "a" >> }
Times == 0 .. MaxTime

HeaderKeys == { << "a" >> }
\* One value, two values, and one value that holds a comma.
HeaderValues == { << << "x" >> >>, << << "x" >>, << "y" >> >>, << << "x", ",", "y" >> >> }

NoHeaders == [ k \in {} |-> << >> ]

\* http.Header.Set on the envelope's own map, and delete.
SetHeaderOf(h, k, vs) == [ x \in DOMAIN h \cup { k } |-> IF x = k THEN vs ELSE h[x] ]
DelHeaderOf(h, k) == [ x \in DOMAIN h \ { k } |-> h[x] ]

\* Texts a caller may put in the Signature field by hand: nothing, bytes
\* outside the base64 alphabet, and well-formed base64 of some other bytes.
Garbage == << "!" >>
Forged == EncodeToString(<< "x" >>)

SignedRequest(m, u, e, h, sig) ==
    [ Method |-> m, URL |-> u, Expiration |-> e, Headers |-> h, Signature |-> sig ]

\* The signed fields of an envelope.
Fields(p) == [ Method |-> p.Method, URL |-> p.URL, Expiration |-> p.Expiration,
               Headers |-> p.Headers ]

NoResult == [ op |-> "none", err |-> Nil, fetches |-> 0, examined |-> 0, rsaCalls |-> 0 ]

Result(op, r) == [ op |-> op, err |-> r.err, fetches |-> r.fetches,
                   examined |-> r.examined, rsaCalls |-> r.rsaCalls ]

\* The variables a specification does not use keep these values.
IdleRest ==
    /\ hist = << >>
    /\ queue = None
    /\ run = None
    /\ ctx = None
    /\ attempts = {}
    /\ envs = None
    /\ calls = None

Idle ==
    /\ req = None
    /\ parsed = None
    /\ payload = << >>
    /\ sigBytes = << >>
    /\ twin = None
    /\ IdleRest

(***************************************************************************)
(* The life of one envelope: the producer fills it in, signs it, the       *)
(* fields may be assigned again, the platform rotates certificates, time   *)
(* passes, and Verify is called at any point.                              *)
(***************************************************************************)
Init ==
    /\ env \in { SignedRequest(PUT, << "/" >>, e,
                                 SetHeaderOf(NoHeaders, << "a" >>, << << "x" >> >>), << >>) :
                   e \in Times }
    /\ signed = None
    /\ certs = << RSACert(SignerKey) >>
    /\ now = 0
    /\ muts = 0
    /\ res = NoResult
    /\ Idle

\* An assignment to one field of the envelope.
Assign(p) ==
    /\ muts < MaxMutations
    /\ p # env
    /\ env' = p
    /\ muts' = muts + 1
    /\ res' = NoResult
    /\ UNCHANGED << signed, certs, now, wireVars, bytesVars, canonVars, restVars >>

SetMethod == \E m \in Methods : Assign([ env EXCEPT !.Method = m ])

SetURL == \E u \in URLs : Assign([ env EXCEPT !.URL = u ])

SetExpiration == \E e \in Times : Assign([ env EXCEPT !.Expiration = e ])

SetHeader ==
    \E k \in HeaderKeys, vs \in HeaderValues :
        Assign([ env EXCEPT !.Headers = SetHeaderOf(env.Headers, k, vs) ])

DelHeader ==
    \E k \in DOMAIN env.Headers :
        Assign([ env EXCEPT !.Headers = DelHeaderOf(env.Headers, k) ])

SetSignature == \E t \in { << >>, Garbage, Forged } : Assign([ env EXCEPT !.Signature = t ])

\* p.Sign(c): one call of the sign oracle, which may fail.
DoSign ==
    \E oracleOk \in BOOLEAN, order \in Orders(env.Headers) :
        LET r == Sign(env, oracleOk, order) IN
        /\ env' = r.env
        /\ signed' = IF r.err = Nil THEN Fields(env) ELSE signed
        /\ res' = [ op |-> "Sign", err |-> r.err, fetches |-> 0, examined |-> 0,
                    rsaCalls |-> 0, oracleCalls |-> r.oracleCalls ]
        /\ UNCHANGED << certs, now, muts, wireVars, bytesVars, canonVars, restVars >>

\* p.Verify(c): the certificate fetch may fail.
DoVerify ==
    \E fetchOk \in BOOLEAN, order \in Orders(env.Headers) :
        /\ res' = Result("Verify", Verify(env, certs, fetchOk, now, order))
        /\ UNCHANGED << envelopeVars, certs, now, wireVars, bytesVars, canonVars, restVars >>

\* The platform publishes one more certificate.
AddCert ==
    \E c \in { RSACert(SignerKey), BadPEM } :
        /\ Len(certs) < MaxCerts
        /\ certs' = Append(certs, c)
        /\ res' = NoResult
        /\ UNCHANGED << envelopeVars, now, wireVars, bytesVars, canonVars, restVars >>

\* The platform withdraws a certificate.
RemoveCert ==
    \E i \in DOMAIN certs :
        /\ certs' = SubSeq(certs, 1, i - 1) \o SubSeq(certs, i + 1, Len(certs))
        /\ res' = NoResult
        /\ UNCHANGED << envelopeVars, now, wireVars, bytesVars, canonVars, restVars >>

Tick ==
    /\ now < MaxTime
    /\ now' = now + 1
    /\ res' = NoResult
    /\ UNCHANGED << envelopeVars, certs, wireVars, bytesVars, canonVars, restVars >>

Next ==
    \/ SetMethod
    \/ SetURL
    \/ SetExpiration
    \/ SetHeader
    \/ DelHeader
    \/ SetSignature
    \/ DoSign
    \/ DoVerify
    \/ AddCert
    \/ RemoveCert
    \/ Tick

Spec == Init /\ [][Next]_vars

(***************************************************************************)
(* VerifyBytes against a rotating certificate set (SpecBytes): data is     *)
(* signed by the app's key or by a foreign one, certificates of every kind *)
(* are published at any position and withdrawn, and VerifyBytes is called  *)
(* at any point, as in TestSignatureVerification.                          *)
(***************************************************************************)
MaxPublished == 3

Hello  == << "h", "i" >>
Hello2 == << "h", "i", "!" >>
Payloads == { Hello, Hello2 }

CertKinds == { RSACert(k) : k \in Keys } \cup { BadPEM, BadX509, NotRSA }

InitBytes ==
    /\ env = None
    /\ signed = None
    /\ muts = 0
    /\ now = 0
    /\ certs = << >>
    /\ res = NoResult
    /\ req = None
    /\ parsed = None
    /\ twin = None
    /\ payload = Hello
    /\ sigBytes = << >>
    /\ IdleRest

\* appengine.SignBytes(c, data) by the holder of key k.
SignData ==
    \E k \in Keys :
        /\ sigBytes' = SignBytes(k, payload)
        /\ res' = NoResult
        /\ UNCHANGED << envelopeVars, certs, now, wireVars, canonVars, payload, restVars >>

\* The caller picks other data to verify against the signature it holds.
SetPayload ==
    \E d \in Payloads :
        /\ d # payload
        /\ payload' = d
        /\ res' = NoResult
        /\ UNCHANGED << envelopeVars, certs, now, wireVars, canonVars, sigBytes, restVars >>

\* The platform publishes a certificate at position i of its list.
PublishCert ==
    \E c \in CertKinds, i \in 0 .. Len(certs) :
        /\ Len(certs) < MaxPublished
        /\ certs' = SubSeq(certs, 1, i) \o << c >> \o SubSeq(certs, i + 1, Len(certs))
        /\ res' = NoResult
        /\ UNCHANGED << envelopeVars, now, wireVars, canonVars, bytesVars, restVars >>

\* The platform withdraws the certificate at position i.
WithdrawCert ==
    \E i \in DOMAIN certs :
        /\ certs' = SubSeq(certs, 1, i - 1) \o SubSeq(certs, i + 1, Len(certs))
        /\ res' = NoResult
        /\ UNCHANGED << envelopeVars, now, wireVars, canonVars, bytesVars, restVars >>

\* VerifyBytes(c, payload, sigBytes): the certificate fetch may fail.
DoVerifyBytes ==
    \E fetchOk \in BOOLEAN :
        /\ res' = Result("VerifyBytes", VerifyBytes(certs, fetchOk, payload, sigBytes))
        /\ UNCHANGED << envelopeVars, certs, now, wireVars, canonVars, bytesVars, restVars >>

NextBytes ==
    \/ SignData
    \/ SetPayload
    \/ PublishCert
    \/ WithdrawCert
    \/ DoVerifyBytes

SpecBytes == InitBytes /\ [][NextBytes]_vars

(***************************************************************************)
(* Canonicalisation (SpecCanon): an envelope, a twin built from the same   *)
(* method, URL and header mapping with an expiration in the same whole     *)
(* second, and signingString on both, each ranging over its map in an      *)
(* order of its own.                                                       *)
(***************************************************************************)
CanonKeys == { << "a" >>, << "B" >>, << "a", "-", "b" >> }
CanonValues == { << << "x" >> >>, << << "x" >>, << "y" >> >> }

\* Every header map over a subset of the keys.
HeaderMaps(keys, values) == UNION { [ K -> values ] : K \in SUBSET keys }

\* A URL in lower case only and one in mixed case.
CanonURLs == { << "/" >>, << "/", "A", "b" >> }

InitCanon ==
    /\ env \in { SignedRequest(m, u, e, h, << >>) :
                   m \in Methods, u \in CanonURLs, e \in Times,
                   h \in HeaderMaps(CanonKeys, CanonValues) }
    /\ twin = None
    /\ signed = None
    /\ muts = 0
    /\ now = 0
    /\ certs = << >>
    /\ res = NoResult
    /\ req = None
    /\ parsed = None
    /\ payload = << >>
    /\ sigBytes = << >>
    /\ IdleRest

\* A second envelope is built from the same logical values: the expiration
\* may differ in its sub-second part.
Rebuild ==
    \E e \in Times :
        /\ Unix(e) = Unix(env.Expiration)
        /\ twin' = [ env EXCEPT !.Expiration = e ]
        /\ res' = NoResult
        /\ UNCHANGED << envelopeVars, certs, now, wireVars, bytesVars, restVars >>

\* signingString is called on both envelopes.
Canonicalize ==
    \E o1 \in Orders(env.Headers), o2 \in Orders(env.Headers) :
        /\ twin # None
        /\ res' = [ op |-> "signingString",
                    first |-> signingString(env, o1), second |-> signingString(twin, o2),
                    order1 |-> o1, order2 |-> o2 ]
        /\ UNCHANGED << envelopeVars, certs, now, wireVars, bytesVars, canonVars, restVars >>

NextCanon ==
    \/ Rebuild
    \/ Canonicalize

SpecCanon == InitCanon /\ [][NextCanon]_vars

(***************************************************************************)
(* The wire form (SpecWire): an envelope is signed, turned into an         *)
(* http.Request by HTTPRequest, read back by ParseHTTPRequest and          *)
(* verified, as in TestSignedRequest; certificates rotate and time passes  *)
(* meanwhile.  A request is its method, the text its URL prints as, and    *)
(* its header map from canonical names to value lists.                     *)
(***************************************************************************)
SignatureKey == << "S","i","g","n","a","t","u","r","e" >>
ExpirationKey == SignatureKey \o << "-","E","x","p","i","r","a","t","i","o","n" >>
SignedHeadersKey == << "S","i","g","n","e","d","-","H","e","a","d","e","r","s" >>

\* The method http.NewRequest accepts: not empty, token characters only.
validMethod(m) == m # << >> /\ \A i \in DOMAIN m : IsTokenChar(m[i])

\* The number of characters of the scheme of u (letters up to the first
\* colon), 0 when u has none.
SchemeLen(u) ==
    IF \E i \in DOMAIN u :
          /\ i > 1
          /\ u[i] = ":"
          /\ \A j \in 1 .. i - 1 : u[j] \in UpperSet \cup LowerSet
    THEN (CHOOSE i \in DOMAIN u : u[i] = ":" /\ \A j \in 1 .. i - 1 : u[j] # ":") - 1
    ELSE 0

\* url.Parse refuses a text with a control character.
URLParses(u) == \A i \in DOMAIN u : u[i] # "\n"

\* url.Parse(u) followed by URL.String(): the scheme comes back in lower
\* case (the URLs in use need no escaping).
URLString(u) == [ i \in DOMAIN u |-> IF i <= SchemeLen(u) THEN ToLower(u[i]) ELSE u[i] ]

\* http.Header.Get: the first value under the canonical name, or "".
HeaderGet(h, k) ==
    IF CanonicalHeaderKey(k) \in DOMAIN h /\ h[CanonicalHeaderKey(k)] # << >>
    THEN h[CanonicalHeaderKey(k)][1]
    ELSE << >>

\* h[k], nil when the key is absent.
HeaderAt(h, k) == IF k \in DOMAIN h THEN h[k] ELSE << >>

\* http.Header.Add for every value of vals, in order.
HeaderAddAll(h, k, vals) ==
    IF vals = << >> THEN h
    ELSE SetHeaderOf(h, CanonicalHeaderKey(k), HeaderAt(h, CanonicalHeaderKey(k)) \o vals)

\* The loop of HTTPRequest over the envelope's headers from position i on.
RECURSIVE AddSignedHeaders(_, _, _, _)
AddSignedHeaders(h, p, order, i) ==
    IF i > Len(order) THEN h
    ELSE AddSignedHeaders(HeaderAddAll(h, order[i], p.Headers[order[i]]), p, order, i + 1)

\* Expiration.Format(time.RFC3339): the text names the whole second and
\* carries no sub-second part; it is written as the second count and "Z".
FormatRFC3339(t) == FormatInt(Unix(t)) \o << "Z" >>

RECURSIVE ParseNat(_)
ParseNat(ds) ==
    IF ds = << >> THEN 0
    ELSE 10 * ParseNat(SubSeq(ds, 1, Len(ds) - 1)) + (IndexIn(ds[Len(ds)], Digits) - 1)

\* time.Parse(time.RFC3339, text): an error for the empty text and for any
\* text not in the format.
ParseRFC3339(text) ==
    IF /\ Len(text) >= 2
       /\ text[Len(text)] = "Z"
       /\ \A i \in 1 .. Len(text) - 1 : text[i] \in DigitSet
    THEN [ ok |-> TRUE, time |-> ParseNat(SubSeq(text, 1, Len(text) - 1)) * TicksPerSecond ]
    ELSE [ ok |-> FALSE, time |-> 0 ]

ErrNewRequest == "http.NewRequest error"
ErrTimeParse == "time.Parse error"

\* An HTTPRequest that leaves the request's header map, under its canonical
\* names, in the envelope.
HTTPRequestKeepsRequestHeaders(p, order) ==
    LET method == IF p.Method = << >> THEN GET ELSE p.Method IN
    IF ~validMethod(method) \/ ~URLParses(p.URL)
    THEN [ req |-> None, err |-> ErrNewRequest, env |-> p ]
    ELSE LET h1 == AddSignedHeaders(NoHeaders, p, order, 1)
             h2 == SetHeaderOf(h1, SignatureKey, << p.Signature >>)
             h3 == SetHeaderOf(h2, ExpirationKey, << FormatRFC3339(p.Expiration) >>)
             h4 == SetHeaderOf(h3, SignedHeadersKey, order)
         IN  [ req |-> [ Method |-> method, URL |-> URLString(p.URL), Header |-> h4 ],
               err |-> Nil, env |-> [ p EXCEPT !.Headers = h1 ] ]

\* SignedRequest.HTTPRequest, the header map being ranged over in the given
\* order: the request and the error returned, and the envelope after the
\* call (the method has a pointer receiver and assigns to none of its fields).
HTTPRequest(p, order) ==
    LET method == IF p.Method = << >> THEN GET ELSE p.Method IN
    IF ~validMethod(method) \/ ~URLParses(p.URL)
    THEN [ req |-> None, err |-> ErrNewRequest, env |-> p ]
    ELSE LET h1 == AddSignedHeaders(NoHeaders, p, order, 1)
             h2 == SetHeaderOf(h1, SignatureKey, << p.Signature >>)
             h3 == SetHeaderOf(h2, ExpirationKey, << FormatRFC3339(p.Expiration) >>)
             h4 == SetHeaderOf(h3, SignedHeadersKey, order)
         IN  [ req |-> [ Method |-> method, URL |-> URLString(p.URL), Header |-> h4 ],
               err |-> Nil, env |-> p ]

\* A ParseHTTPRequest that takes a missing or unreadable expiration for the
\* zero time.
ParseHTTPRequestZeroTime(r) ==
    LET signature == HeaderGet(r.Header, SignatureKey)
        signedHeaderKeys == HeaderAt(r.Header, SignedHeadersKey)
        expiration == ParseRFC3339(HeaderGet(r.Header, ExpirationKey))
    IN  [ env |-> SignedRequest(r.Method, r.URL, expiration.time,
                     [ key \in Range(signedHeaderKeys) |->
                         HeaderAt(r.Header, CanonicalHeaderKey(key)) ],
                     signature),
          err |-> Nil ]

\* A ParseHTTPRequest that takes every header of the request, the three of
\* the envelope's own aside, for a signed one.
ParseHTTPRequestAllHeaders(r) ==
    LET signature == HeaderGet(r.Header, SignatureKey)
        expirationStr == HeaderGet(r.Header, ExpirationKey)
        expiration == ParseRFC3339(expirationStr)
    IN  IF ~expiration.ok
        THEN [ env |-> None, err |-> ErrTimeParse ]
        ELSE [ env |-> SignedRequest(r.Method, r.URL, expiration.time,
                          [ key \in DOMAIN r.Header
                                      \ { SignatureKey, ExpirationKey, SignedHeadersKey } |->
                              r.Header[key] ],
                          signature),
               err |-> Nil ]

\* ParseHTTPRequest: the envelope and the error returned.
ParseHTTPRequest(r) ==
    LET signature == HeaderGet(r.Header, SignatureKey)
        expirationStr == HeaderGet(r.Header, ExpirationKey)
        signedHeaderKeys == HeaderAt(r.Header, SignedHeadersKey)
        expiration == ParseRFC3339(expirationStr)
    IN  IF ~expiration.ok
        THEN [ env |-> None, err |-> ErrTimeParse ]
        ELSE [ env |-> SignedRequest(r.Method, r.URL, expiration.time,
                          [ key \in Range(signedHeaderKeys) |->
                              HeaderAt(r.Header, CanonicalHeaderKey(key)) ],
                          signature),
               err |-> Nil ]

\* The envelopes a producer builds: a method that may be left empty, a URL
\* whose scheme may be in upper case, and header names that may differ only
\* in case or be one of the names HTTPRequest uses itself.
WireMethods == { PUT, << >> }
WireURLs == { << "/" >>, << "H","T","T","P",":","/","/","h","/" >> }
HeaderOf(k, vs) == SetHeaderOf(NoHeaders, k, vs)
WireHeaders ==
    { NoHeaders,
      HeaderOf(<< "a" >>, << << "x" >>, << "y" >> >>),
      SetHeaderOf(HeaderOf(<< "a" >>, << << "x" >> >>), << "A" >>, << << "y" >> >>),
      HeaderOf(SignatureKey, << << "x" >> >>) }

InitWire ==
    /\ env \in { SignedRequest(m, u, e, h, << >>) :
                   m \in WireMethods, u \in WireURLs, e \in Times, h \in WireHeaders }
    /\ signed = None
    /\ certs = << RSACert(SignerKey) >>
    /\ now = 0
    /\ muts = 0
    /\ res = NoResult
    /\ Idle

\* p.HTTPRequest(nil) on the signed envelope.
DoHTTPRequest ==
    \E order \in Orders(env.Headers) :
        LET r == HTTPRequest(env, order) IN
        /\ signed # None
        /\ req' = r.req
        /\ env' = r.env
        /\ parsed' = None
        /\ res' = [ NoResult EXCEPT !.op = "HTTPRequest", !.err = r.err ]
        /\ UNCHANGED << signed, muts, certs, now, bytesVars, canonVars, restVars >>

\* ParseHTTPRequest(req)
DoParseHTTPRequest ==
    /\ req # None
    /\ LET r == ParseHTTPRequest(req) IN
       /\ parsed' = r.env
       /\ res' = [ NoResult EXCEPT !.op = "ParseHTTPRequest", !.err = r.err ]
    /\ UNCHANGED << envelopeVars, certs, now, req, bytesVars, canonVars, restVars >>

\* Verify on the envelope that was read back.
DoVerifyParsed ==
    \E fetchOk \in BOOLEAN, order \in Orders(IF parsed = None THEN NoHeaders ELSE parsed.Headers) :
        /\ parsed # None
        /\ res' = Result("VerifyParsed", Verify(parsed, certs, fetchOk, now, order))
        /\ UNCHANGED << envelopeVars, certs, now, wireVars, bytesVars, canonVars, restVars >>

NextWire ==
    \/ DoSign
    \/ DoVerify
    \/ DoHTTPRequest
    \/ DoParseHTTPRequest
    \/ DoVerifyParsed
    \/ AddCert
    \/ RemoveCert
    \/ Tick

SpecWire == InitWire /\ [][NextWire]_vars

(***************************************************************************)
(* The HTTP gate (SpecHTTP): HandlerFunc.ServeHTTP receives requests made  *)
(* by the producer with HTTPRequest, the same requests after one change on *)
(* the way, requests without any signature header, and requests signed by  *)
(* the holder of another key, as in TestHandler; certificates rotate and   *)
(* time passes meanwhile.                                                  *)
(***************************************************************************)
StatusOK == 200
StatusBadRequest == 400
StatusInternalServerError == 500

\* The bodies ServeHTTP writes.
NotValidBody == "Not a valid signed request."
ExpiredBody == "Signed URL expired."
NoBody == ""

\* The wrapped function of TestHandler: it answers 200.
handlerFunc == [ status |-> StatusOK, body |-> NoBody, invoked |-> TRUE ]

\* A ServeHTTP that invokes the wrapped function whatever Verify returned.
ServeHTTPIgnoresVerify(r, published, fetchOk, t, order) ==
    LET p == ParseHTTPRequest(r) IN
    IF p.err # Nil
    THEN [ status |-> StatusBadRequest, body |-> NotValidBody, invoked |-> FALSE,
           parseErr |-> p.err, verifyErr |-> Nil ]
    ELSE [ status |-> handlerFunc.status, body |-> handlerFunc.body,
           invoked |-> handlerFunc.invoked, parseErr |-> Nil,
           verifyErr |-> Verify(p.env, published, fetchOk, t, order).err ]

\* HandlerFunc.ServeHTTP on the request r: the status and body written,
\* whether the wrapped function was invoked, and the errors of the two steps.
ServeHTTP(r, published, fetchOk, t, order) ==
    LET p == ParseHTTPRequest(r) IN
    IF p.err # Nil
    THEN [ status |-> StatusBadRequest, body |-> NotValidBody, invoked |-> FALSE,
           parseErr |-> p.err, verifyErr |-> Nil ]
    ELSE LET v == Verify(p.env, published, fetchOk, t, order) IN
         IF v.err # Nil
         THEN IF v.err = ErrExpired
              THEN [ status |-> StatusBadRequest, body |-> ExpiredBody, invoked |-> FALSE,
                     parseErr |-> Nil, verifyErr |-> v.err ]
              ELSE [ status |-> StatusInternalServerError, body |-> NoBody, invoked |-> FALSE,
                     parseErr |-> Nil, verifyErr |-> v.err ]
         ELSE [ status |-> handlerFunc.status, body |-> handlerFunc.body,
                invoked |-> handlerFunc.invoked, parseErr |-> Nil, verifyErr |-> Nil ]

\* The key of another application's sign oracle.
ForeignKey == 2

\* inst.NewRequest("PUT", "/", nil): a request that carries no header.
PlainRequest == [ Method |-> PUT, URL |-> << "/" >>, Header |-> NoHeaders ]

\* The header fields one change on the way may set, with the values it sets.
TamperHeaders ==
    { << SignatureKey, << Garbage >> >>,
      << SignatureKey, << << >> >> >>,
      << SignatureKey, << Forged >> >>,
      << ExpirationKey, << << "x" >> >> >>,
      << ExpirationKey, << FormatRFC3339(MaxTime) >> >>,
      << SignedHeadersKey, << << "b" >> >> >>,
      << << "A" >>, << << "y" >> >> >>,
      << << "B" >>, << << "z" >> >> >> }

\* The requests that differ from r by one change.
TamperedRequests(r) ==
    ( { [ r EXCEPT !.Method = GET ], [ r EXCEPT !.URL = << "/", "a" >> ] }
      \cup { [ r EXCEPT !.Header = DelHeaderOf(r.Header, k) ] : k \in DOMAIN r.Header }
      \cup { [ r EXCEPT !.Header = SetHeaderOf(r.Header, t[1], t[2]) ] : t \in TamperHeaders } )
    \ { r }

\* The requests HTTPRequest makes from the envelope p.
RequestsOf(p) ==
    { HTTPRequest(p, order).req : order \in Orders(p.Headers) }

InitHTTP ==
    /\ env \in { SignedRequest(PUT, << "/" >>, e, h, << >>) :
                   e \in Times, h \in { NoHeaders, HeaderOf(<< "a" >>, << << "x" >> >>) } }
    /\ signed = None
    /\ certs = << RSACert(SignerKey) >>
    /\ now = 0
    /\ muts = 0
    /\ res = NoResult
    /\ Idle

\* A client sends a request without any signature header.
SendPlain ==
    /\ req' = PlainRequest
    /\ parsed' = None
    /\ res' = NoResult
    /\ UNCHANGED << envelopeVars, certs, now, bytesVars, canonVars, restVars >>

\* The request the producer made is changed in one place on its way.
Tamper ==
    /\ req # None
    /\ signed # None
    /\ req \in RequestsOf(env)
    /\ \E r \in TamperedRequests(req) :
          /\ req' = r
          /\ parsed' = None
          /\ res' = NoResult
    /\ UNCHANGED << envelopeVars, certs, now, bytesVars, canonVars, restVars >>

\* The holder of another key signs an envelope of its own and sends it.
Forge ==
    \E e \in Times :
        LET p == SignedRequest(PUT, << "/" >>, e, NoHeaders, << >>)
            q == [ p EXCEPT !.Signature =
                     EncodeToString(SignBytes(ForeignKey, signingString(p, << >>))) ]
        IN  /\ req' = HTTPRequest(q, << >>).req
            /\ parsed' = None
            /\ res' = NoResult
            /\ UNCHANGED << envelopeVars, certs, now, bytesVars, canonVars, restVars >>

\* handler.ServeHTTP(rr, req): the certificate fetch may fail.
DoServeHTTP ==
    /\ req # None
    /\ LET p == ParseHTTPRequest(req) IN
       \E fetchOk \in BOOLEAN,
          order \in Orders(IF p.err = Nil THEN p.env.Headers ELSE NoHeaders) :
            LET s == ServeHTTP(req, certs, fetchOk, now, order) IN
            res' = [ op |-> "ServeHTTP", err |-> s.verifyErr, parseErr |-> s.parseErr,
                     status |-> s.status, body |-> s.body, invoked |-> s.invoked ]
    /\ UNCHANGED << envelopeVars, certs, now, wireVars, bytesVars, canonVars, restVars >>

NextHTTP ==
    \/ DoSign
    \/ DoHTTPRequest
    \/ SendPlain
    \/ Tamper
    \/ Forge
    \/ DoParseHTTPRequest
    \/ DoServeHTTP
    \/ AddCert
    \/ RemoveCert
    \/ Tick

SpecHTTP == InitHTTP /\ [][NextHTTP]_vars

(***************************************************************************)
(* Selected headers (SpecSelect): the request the producer made reaches    *)
(* the consumer next to a second request that carries other values under   *)
(* the header names A and B - one of them named in Signed-Headers, or      *)
(* both, or none; both requests are read with ParseHTTPRequest and         *)
(* verified against the same certificates at the same time; the           *)
(* certificate fetch may fail and time passes meanwhile.                   *)
(***************************************************************************)
\* The headers the producer selects for signing.
SelectHeaders ==
    { NoHeaders,
      HeaderOf(<< "a" >>, << << "x" >> >>),
      HeaderOf(<< "a" >>, << << "x" >>, << "y" >> >>),
      HeaderOf(<< "a" >>, << << >> >>),
      HeaderOf(<< "b" >>, << << "z" >> >>),
      SetHeaderOf(HeaderOf(<< "a" >>, << << "x" >> >>), << "b" >>, << << "z" >> >>) }

\* The value lists the second request may carry under A and under B; the
\* empty list stands for a request without the header.
FirstValues ==
    { << >>, << << "x" >> >>, << << "y" >> >>, << << "x" >>, << "y" >> >>,
      << << "x", ",", "y" >> >>, << << >> >> }
SecondValues == { << >>, << << "z" >> >> }

\* r.Header[k] = vs, the key being deleted for the empty list.
WithValues(h, k, vs) == IF vs = << >> THEN DelHeaderOf(h, k) ELSE SetHeaderOf(h, k, vs)

\* The requests that are r but for the headers A and B.
Companions(r) ==
    { [ r EXCEPT !.Header = WithValues(WithValues(r.Header, << "A" >>, a), << "B" >>, b) ] :
        a \in FirstValues, b \in SecondValues }

\* ParseHTTPRequest(r), then signingString and Verify on the envelope read:
\* the error of the parse, the canonical string and what Verify returned.
Reading(r, published, fetchOk, t, order) ==
    LET p == ParseHTTPRequest(r) IN
    IF p.err # Nil
    THEN [ parseErr |-> p.err, canonical |-> << >>, err |-> Nil ]
    ELSE [ parseErr |-> Nil, canonical |-> signingString(p.env, order),
           err |-> Verify(p.env, published, fetchOk, t, order).err ]

InitSelect ==
    /\ env \in { SignedRequest(PUT, << "/" >>, e, h, << >>) :
                   e \in { 0, MaxTime }, h \in SelectHeaders }
    /\ signed = None
    /\ certs = << RSACert(SignerKey) >>
    /\ now = 0
    /\ muts = 0
    /\ res = NoResult
    /\ Idle

\* The consumer reads and verifies req and a second request; the certificate
\* fetch may fail, for both alike.
DoCompare ==
    /\ req # None
    /\ \E other \in Companions(req), fetchOk \in BOOLEAN :
          LET p1 == ParseHTTPRequest(req)
              p2 == ParseHTTPRequest(other)
          IN  \E o1 \in Orders(IF p1.err = Nil THEN p1.env.Headers ELSE NoHeaders),
                 o2 \in Orders(IF p2.err = Nil THEN p2.env.Headers ELSE NoHeaders) :
                  LET r1 == Reading(req, certs, fetchOk, now, o1)
                      r2 == Reading(other, certs, fetchOk, now, o2)
                  IN  res' = [ op |-> "Compare", err |-> r1.err, parseErr |-> r1.parseErr,
                               canonical |-> r1.canonical, other |-> other,
                               otherErr |-> r2.err, otherParseErr |-> r2.parseErr,
                               otherCanonical |-> r2.canonical ]
    /\ UNCHANGED << envelopeVars, certs, now, wireVars, bytesVars, canonVars, restVars >>

NextSelect ==
    \/ DoSign
    \/ DoHTTPRequest
    \/ DoCompare
    \/ Tick

SpecSelect == InitSelect /\ [][NextSelect]_vars

(***************************************************************************)
(* Verification calls under rotation (SpecRotate): data and an envelope    *)
(* signed by the app's key are verified again and again while the platform *)
(* publishes and withdraws certificates and the certificate source may     *)
(* fail; hist keeps the two most recent calls.                             *)
(***************************************************************************)
\* What is remembered of one call: the list published when it was made,
\* whether the fetch succeeded, and what the call returned and did.
CallRecord(op, published, fetchOk, r) ==
    [ op |-> op, published |-> published, fetchOk |-> fetchOk, err |-> r.err,
      fetches |-> r.fetches, examined |-> r.examined, rsaCalls |-> r.rsaCalls ]

LastTwo(s) == IF Len(s) > 2 THEN SubSeq(s, Len(s) - 1, Len(s)) ELSE s

InitRotate ==
    /\ env = Sign(SignedRequest(PUT, << "/" >>, MaxTime, NoHeaders, << >>), TRUE, << >>).env
    /\ signed = [ Method |-> PUT, URL |-> << "/" >>, Expiration |-> MaxTime,
                  Headers |-> NoHeaders ]
    /\ payload = Hello
    /\ sigBytes = SignBytes(SignerKey, Hello)
    /\ certs = << >>
    /\ now = 0
    /\ muts = 0
    /\ res = NoResult
    /\ req = None
    /\ parsed = None
    /\ twin = None
    /\ IdleRest

\* VerifyBytes(c, payload, sigBytes), remembered in hist.
CallVerifyBytes ==
    \E fetchOk \in BOOLEAN :
        LET r == VerifyBytes(certs, fetchOk, payload, sigBytes) IN
        /\ res' = Result("VerifyBytes", r)
        /\ hist' = LastTwo(Append(hist, CallRecord("VerifyBytes", certs, fetchOk, r)))
        /\ UNCHANGED << envelopeVars, certs, now, wireVars, bytesVars, canonVars,
                        queueVars, concVars >>

\* env.Verify(c), remembered in hist.
CallVerify ==
    \E fetchOk \in BOOLEAN :
        LET r == Verify(env, certs, fetchOk, now, << >>) IN
        /\ res' = Result("Verify", r)
        /\ hist' = LastTwo(Append(hist, CallRecord("Verify", certs, fetchOk, r)))
        /\ UNCHANGED << envelopeVars, certs, now, wireVars, bytesVars, canonVars,
                        queueVars, concVars >>

NextRotate ==
    \/ CallVerifyBytes
    \/ CallVerify
    \/ AddCert
    \/ RemoveCert

SpecRotate == InitRotate /\ [][NextRotate]_vars

(***************************************************************************)
(* package pullqueue (SpecQueue): Queue.Run leases tasks from a pull queue,*)
(* hands each decoded payload to the processor and deletes the tasks the   *)
(* processor accepted, until its context is done.  The queue service may   *)
(* fail a lease or a delete, a lease runs out after a while, and the       *)
(* processor may fail.                                                     *)
(***************************************************************************)
MaxTasks == 2
TaskIds == 1 .. MaxTasks

\* The numTasks argument of tqs.Lease.
LeaseCount == 1

ErrParseError == "ErrParseError"
ErrProcessor == "processor error"
ErrClient == "google.DefaultClient / taskqueue.New error"
Canceled == "context.Canceled"
DeadlineExceeded == "context.DeadlineExceeded"
NotCalled == "not called"

\* task.QueueName in the format project/<prefixed project>/taskqueue/<queue>,
\* and names that do not have four parts.
GoodQueueName == << "p", "/", "s", "p", "/", "t", "/", "q" >>
ShortQueueName == << "q" >>
LongQueueName == GoodQueueName \o << "/", "x" >>

\* A task as the lease returns it.
Task(id, payloadBase64, queueName) ==
    [ id |-> id, PayloadBase64 |-> payloadBase64, QueueName |-> queueName ]

\* The kinds of task found in the queue: a well-formed one, one with an empty
\* payload, one whose payload is not base64, and two with a bad queue name.
TaskKinds ==
    { [ PayloadBase64 |-> EncodeToString(Hello), QueueName |-> GoodQueueName ],
      [ PayloadBase64 |-> << >>, QueueName |-> GoodQueueName ],
      [ PayloadBase64 |-> Garbage, QueueName |-> GoodQueueName ],
      [ PayloadBase64 |-> EncodeToString(Hello), QueueName |-> ShortQueueName ],
      [ PayloadBase64 |-> EncodeToString(Hello), QueueName |-> LongQueueName ] }

\* ParseQueueName(task)
ParseQueueName(task) ==
    LET parts == Split(task.QueueName, "/") IN
    IF Len(parts) # 4
    THEN [ projectName |-> << >>, queueName |-> << >>, err |-> ErrParseError ]
    ELSE [ projectName |-> parts[2], queueName |-> parts[4], err |-> Nil ]

\* The body of the loop over tasks.Items that deletes whenever the payload
\* decoded and the name parsed, whatever the processor returned.
ProcessTaskIgnoresProcessor(task, procErr) ==
    LET d == DecodeString(task.PayloadBase64)
        n == ParseQueueName(task)
    IN  IF ~d.ok
        THEN [ id |-> task.id, decoded |-> FALSE, named |-> FALSE, procErr |-> NotCalled,
               deleteIssued |-> FALSE, project |-> << >>, name |-> << >> ]
        ELSE IF n.err # Nil
        THEN [ id |-> task.id, decoded |-> TRUE, named |-> FALSE, procErr |-> NotCalled,
               deleteIssued |-> FALSE, project |-> << >>, name |-> << >> ]
        ELSE [ id |-> task.id, decoded |-> TRUE, named |-> TRUE, procErr |-> procErr,
               deleteIssued |-> TRUE, project |-> n.projectName, name |-> n.queueName ]

\* The body of the loop over tasks.Items for one task, procErr being what the
\* processor returns if it is called: how far the body got, and whether it
\* issued tqs.Delete and with which names.
ProcessTask(task, procErr) ==
    LET d == DecodeString(task.PayloadBase64)
        n == ParseQueueName(task)
    IN  IF ~d.ok
        THEN [ id |-> task.id, decoded |-> FALSE, named |-> FALSE, procErr |-> NotCalled,
               deleteIssued |-> FALSE, project |-> << >>, name |-> << >> ]
        ELSE IF n.err # Nil
        THEN [ id |-> task.id, decoded |-> TRUE, named |-> FALSE, procErr |-> NotCalled,
               deleteIssued |-> FALSE, project |-> << >>, name |-> << >> ]
        ELSE IF procErr # Nil
        THEN [ id |-> task.id, decoded |-> TRUE, named |-> TRUE, procErr |-> procErr,
               deleteIssued |-> FALSE, project |-> << >>, name |-> << >> ]
        ELSE [ id |-> task.id, decoded |-> TRUE, named |-> TRUE, procErr |-> Nil,
               deleteIssued |-> TRUE, project |-> n.projectName, name |-> n.queueName ]

\* The tasks a lease may hand out: in the queue and not leased out.
Leasable == { id \in DOMAIN queue : ~queue[id].leased }

\* The ways to list the members of the set S.
Listings(S) ==
    { l \in [ 1 .. Cardinality(S) -> S ] : \A i, j \in DOMAIN l : i # j => l[i] # l[j] }

InitQueue ==
    /\ queue \in [ TaskIds -> { [ task |-> k, leased |-> FALSE ] : k \in TaskKinds } ]
    /\ run = [ pc |-> "start", batch |-> << >>, i |-> 0, ret |-> Nil ]
    /\ ctx = Nil
    /\ attempts = {}
    /\ env = None
    /\ signed = None
    /\ certs = << >>
    /\ now = 0
    /\ muts = 0
    /\ res = NoResult
    /\ req = None
    /\ parsed = None
    /\ payload = << >>
    /\ sigBytes = << >>
    /\ twin = None
    /\ hist = << >>
    /\ envs = None
    /\ calls = None

\* google.DefaultClient and taskqueue.New: Run returns their error.
RunStart ==
    /\ run.pc = "start"
    /\ \E ok \in BOOLEAN :
          run' = IF ok THEN [ run EXCEPT !.pc = "check" ]
                 ELSE [ run EXCEPT !.pc = "returned", !.ret = ErrClient ]
    /\ UNCHANGED << queue, ctx, attempts >>

\* A loop without a condition, for { ... }: the context is never looked at.
RunCheckIgnoresContext ==
    /\ run.pc = "check"
    /\ run' = [ run EXCEPT !.pc = "lease" ]
    /\ UNCHANGED << queue, ctx, attempts >>

\* The loop condition c.Err() == nil, and return c.Err().
RunCheck ==
    /\ run.pc = "check"
    /\ run' = IF ctx = Nil THEN [ run EXCEPT !.pc = "lease" ]
              ELSE [ run EXCEPT !.pc = "returned", !.ret = ctx ]
    /\ UNCHANGED << queue, ctx, attempts >>

\* tqs.Lease(...).Do() returns an error: Run sleeps.
RunLeaseFails ==
    /\ run.pc = "lease"
    /\ run' = [ run EXCEPT !.pc = "sleep" ]
    /\ UNCHANGED << queue, ctx, attempts >>

\* tqs.Lease(...).Do() returns up to LeaseCount tasks: Run sleeps when there
\* are none and goes through them otherwise.
RunLease ==
    /\ run.pc = "lease"
    /\ \E S \in SUBSET Leasable :
          /\ Cardinality(S) <= LeaseCount
          /\ \E l \in Listings(S) :
                /\ run' = [ run EXCEPT !.pc = IF S = {} THEN "sleep" ELSE "process",
                                       !.batch = [ i \in DOMAIN l |->
                                                     Task(l[i], queue[l[i]].task.PayloadBase64,
                                                          queue[l[i]].task.QueueName) ],
                                       !.i = 1 ]
                /\ queue' = [ id \in DOMAIN queue |->
                                IF id \in S THEN [ queue[id] EXCEPT !.leased = TRUE ]
                                ELSE queue[id] ]
    /\ UNCHANGED << ctx, attempts >>

\* time.Sleep(options.noItemsLoopDelay()) is over.
RunSleep ==
    /\ run.pc = "sleep"
    /\ run' = [ run EXCEPT !.pc = "check" ]
    /\ UNCHANGED << queue, ctx, attempts >>

\* One pass of the loop over tasks.Items: the processor may fail, and so may
\* the delete (the task is then still in the queue).
RunProcess ==
    /\ run.pc = "process"
    /\ \E procErr \in { Nil, ErrProcessor }, deleteOk \in BOOLEAN :
          LET a == ProcessTask(run.batch[run.i], procErr) IN
          /\ attempts' = attempts \cup { a }
          /\ queue' = IF /\ a.deleteIssued /\ deleteOk /\ a.id \in DOMAIN queue
                         /\ a.project = << "s", "p" >> /\ a.name = << "q" >>
                      THEN [ id \in DOMAIN queue \ { a.id } |-> queue[id] ]
                      ELSE queue
          /\ run' = IF run.i < Len(run.batch) THEN [ run EXCEPT !.i = run.i + 1 ]
                    ELSE [ run EXCEPT !.pc = "check", !.batch = << >>, !.i = 0 ]
    /\ UNCHANGED ctx

\* The lease of a task runs out: the task can be leased again.
LeaseExpires ==
    /\ \E id \in DOMAIN queue :
          /\ queue[id].leased
          /\ queue' = [ queue EXCEPT ![id].leased = FALSE ]
    /\ UNCHANGED << run, ctx, attempts >>

\* The context is cancelled or its deadline passes.
ContextDone ==
    /\ ctx = Nil
    /\ ctx' \in { Canceled, DeadlineExceeded }
    /\ UNCHANGED << queue, run, attempts >>

NextQueue ==
    /\ \/ RunStart
       \/ RunCheck
       \/ RunLeaseFails
       \/ RunLease
       \/ RunSleep
       \/ RunProcess
       \/ LeaseExpires
       \/ ContextDone
    /\ UNCHANGED << envelopeVars, certs, now, res, wireVars, bytesVars, canonVars,
                    histVars, concVars >>

SpecQueue == InitQueue /\ [][NextQueue]_vars

\* The next step of Run, whichever it is.  Run is one goroutine and executes
\* its statements in sequence: the scheduler lets it go on, time.Sleep ends,
\* and the calls to the queue service and to the processor are taken to
\* return.
RunStep ==
    /\ \/ RunStart
       \/ RunCheck
       \/ RunLeaseFails
       \/ RunLease
       \/ RunSleep
       \/ RunProcess
    /\ UNCHANGED << envelopeVars, certs, now, res, wireVars, bytesVars, canonVars,
                    histVars, concVars >>

\* The tasks of the queue Run is followed on to its return: well-formed
\* ones and ones whose payload does not decode.
MaxLiveTasks == 1
LiveTaskKinds ==
    { k \in TaskKinds : k.QueueName = GoodQueueName /\ k.PayloadBase64 # << >> }

InitQueueLive ==
    /\ queue \in [ 1 .. MaxLiveTasks -> { [ task |-> k, leased |-> FALSE ] : k \in LiveTaskKinds } ]
    /\ run = [ pc |-> "start", batch |-> << >>, i |-> 0, ret |-> Nil ]
    /\ ctx = Nil
    /\ attempts = {}
    /\ env = None
    /\ signed = None
    /\ certs = << >>
    /\ now = 0
    /\ muts = 0
    /\ res = NoResult
    /\ req = None
    /\ parsed = None
    /\ payload = << >>
    /\ sigBytes = << >>
    /\ twin = None
    /\ hist = << >>
    /\ envs = None
    /\ calls = None

\* Queue.Run under that scheduling; the queue service and the context are
\* under no obligation.
SpecQueueLive == InitQueueLive /\ [][NextQueue]_vars /\ WF_vars(RunStep)

(***************************************************************************)
(* Concurrent callers (SpecConc): each caller has an envelope of its own   *)
(* and calls Sign and Verify on it; the calls advance one step at a time - *)
(* building the canonical string, the oracle call, the store of Signature, *)
(* the certificate fetch, the scan, the reading of the clock - interleaved *)
(* with each other, with changes of the published set and with the clock.  *)
(***************************************************************************)
MaxCallers == 2
Callers == 1 .. MaxCallers

\* The envelope the call of caller i has as its receiver p.
ReceiverShared(i) == 1

Receiver(i) == i

\* The sets the platform switches between.
ConcCertSets == { << >>, << RSACert(SignerKey) >> }

\* No call in progress.
IdleCall ==
    [ op |-> "none", pc |-> "idle", start |-> None, str |-> << >>, sig |-> << >>,
      fetched |-> << >>, fetchOk |-> TRUE, readTime |-> 0, err |-> Nil ]

InitConc ==
    /\ envs = [ i \in Callers |->
                  SignedRequest(PUT, IF i = 1 THEN << "/" >> ELSE << "/", "a" >>, 1,
                                NoHeaders, << >>) ]
    /\ calls = [ i \in Callers |-> IdleCall ]
    /\ certs = << RSACert(SignerKey) >>
    /\ now = 0
    /\ env = None
    /\ signed = None
    /\ muts = 0
    /\ res = NoResult
    /\ req = None
    /\ parsed = None
    /\ payload = << >>
    /\ sigBytes = << >>
    /\ twin = None
    /\ hist = << >>
    /\ queue = None
    /\ run = None
    /\ ctx = None
    /\ attempts = {}

ConcFrame == UNCHANGED << envelopeVars, certs, now, res, wireVars, bytesVars, canonVars,
                          histVars, queueVars >>

\* Sign: p.signingString() is computed.
SignBegin(i) ==
    /\ calls[i].pc = "idle"
    /\ calls' = [ calls EXCEPT ![i] =
                    [ IdleCall EXCEPT !.op = "Sign", !.pc = "oracle",
                                      !.start = envs[Receiver(i)],
                                      !.str = signingString(envs[Receiver(i)], << >>) ] ]
    /\ UNCHANGED envs
    /\ ConcFrame

\* Sign: appengine.SignBytes returns a signature or an error.
SignOracle(i) ==
    /\ calls[i].pc = "oracle"
    /\ \E oracleOk \in BOOLEAN :
          calls' = [ calls EXCEPT ![i] =
                       IF oracleOk
                       THEN [ @ EXCEPT !.pc = "store", !.sig = SignBytes(SignerKey, calls[i].str) ]
                       ELSE [ @ EXCEPT !.pc = "returned", !.err = ErrSignBytes ] ]
    /\ UNCHANGED envs
    /\ ConcFrame

\* Sign: p.Signature = base64.StdEncoding.EncodeToString(sig); return nil.
SignStore(i) ==
    /\ calls[i].pc = "store"
    /\ envs' = [ envs EXCEPT ![Receiver(i)].Signature = EncodeToString(calls[i].sig) ]
    /\ calls' = [ calls EXCEPT ![i].pc = "returned" ]
    /\ ConcFrame

\* Verify: p.Signature is decoded and p.signingString() computed.
VerifyBegin(i) ==
    /\ calls[i].pc = "idle"
    /\ LET p == envs[Receiver(i)]
           d == DecodeString(p.Signature)
       IN  calls' = [ calls EXCEPT ![i] =
                        IF ~d.ok
                        THEN [ IdleCall EXCEPT !.op = "Verify", !.pc = "returned",
                                               !.start = p, !.err = ErrCorruptInput ]
                        ELSE [ IdleCall EXCEPT !.op = "Verify", !.pc = "fetch",
                                               !.start = p, !.sig = d.bytes,
                                               !.str = signingString(p, << >>) ] ]
    /\ UNCHANGED envs
    /\ ConcFrame

\* Verify: VerifyBytes fetches the published certificates.
VerifyFetch(i) ==
    /\ calls[i].pc = "fetch"
    /\ \E fetchOk \in BOOLEAN :
          calls' = [ calls EXCEPT ![i] =
                       IF fetchOk
                       THEN [ @ EXCEPT !.pc = "scan", !.fetched = certs ]
                       ELSE [ @ EXCEPT !.pc = "returned", !.fetchOk = FALSE,
                                       !.err = ErrFetch ] ]
    /\ UNCHANGED envs
    /\ ConcFrame

\* Verify: VerifyBytes goes through the certificates it fetched.
VerifyScan(i) ==
    /\ calls[i].pc = "scan"
    /\ LET r == ScanCertificates(calls[i].fetched, 1, ErrNoPublicCertificates,
                                 SHA256(calls[i].str), calls[i].sig, 0, 0)
       IN  calls' = [ calls EXCEPT ![i] =
                        IF r.err # Nil THEN [ @ EXCEPT !.pc = "returned", !.err = r.err ]
                        ELSE [ @ EXCEPT !.pc = "expiry" ] ]
    /\ UNCHANGED envs
    /\ ConcFrame

\* Verify: time.Now().After(p.Expiration)
VerifyExpiry(i) ==
    /\ calls[i].pc = "expiry"
    /\ calls' = [ calls EXCEPT ![i] =
                    [ @ EXCEPT !.pc = "returned", !.readTime = now,
                               !.err = IF now > envs[Receiver(i)].Expiration
                                       THEN ErrExpired ELSE Nil ] ]
    /\ UNCHANGED envs
    /\ ConcFrame

\* The caller has the result and is free to make its next call.
Return(i) ==
    /\ calls[i].pc = "returned"
    /\ calls' = [ calls EXCEPT ![i] = IdleCall ]
    /\ UNCHANGED envs
    /\ ConcFrame

\* The platform publishes another set.
SwapCerts ==
    /\ \E l \in ConcCertSets :
          /\ l # certs
          /\ certs' = l
    /\ UNCHANGED << envelopeVars, now, res, wireVars, bytesVars, canonVars, restVars >>

NextConc ==
    \/ \E i \in Callers :
          \/ SignBegin(i)
          \/ SignOracle(i)
          \/ SignStore(i)
          \/ VerifyBegin(i)
          \/ VerifyFetch(i)
          \/ VerifyScan(i)
          \/ VerifyExpiry(i)
          \/ Return(i)
    \/ SwapCerts
    \/ Tick

SpecConc == InitConc /\ [][NextConc]_vars

(***************************************************************************)
(* Properties of Verify over the life of an envelope (Spec).               *)
(***************************************************************************)
\* A certificate the loop can get an RSA key out of.
Usable(c) == c.pem /\ c.x509 /\ c.rsa

\* Some published certificate validates p's decoded signature over p's
\* canonical string, whatever order the headers are visited in.
SomeCertValidates(p) ==
    \E i \in DOMAIN certs :
        /\ Usable(certs[i])
        /\ \A order \in Orders(p.Headers) :
              VerifyPKCS1v15(certs[i].key, SHA256(signingString(p, order)),
                             DecodeString(p.Signature).bytes)

Verified == res.op = "Verify"

\* The sorted header lines as one block of text.
HeaderBlock(p) ==
    LET order == CHOOSE o \in Orders(p.Headers) : TRUE
    IN  Join(SortStrings(HeaderLines(p, order)), << "\n" >>)

\* The Signature field still holds what Sign stored for the fields in signed.
HoldsOldSignature ==
    /\ signed # None
    /\ LET order == CHOOSE o \in Orders(signed.Headers) : TRUE
       IN  env.Signature = EncodeToString(SignBytes(SignerKey, signingString(signed, order)))

\* The signed fields whose value differs from the value that was signed.
ChangedFields ==
    { f \in { "Method", "URL", "Expiration", "Headers" } : env[f] # signed[f] }

\* The one changed field changes its part of the canonical string.
ChangesCanonicalPart ==
    \/ env.Method # signed.Method
    \/ env.URL # signed.URL
    \/ Unix(env.Expiration) # Unix(signed.Expiration)
    \/ HeaderBlock(env) # HeaderBlock(signed)

\* The fetch of the last Verify succeeded and the last published certificate
\* is a usable RSA certificate.
LastCertUsable == res.err # ErrFetch /\ certs # << >> /\ Usable(certs[Len(certs)])

\* C1: Verify returns nil only if the Signature field decodes as base64, some
\* published certificate validates the decoded signature over the canonical
\* string of the envelope's current fields, and the current time is not after
\* Expiration; whenever one of the three fails Verify returns an error.
C1_VerifySuccessOnlyIfAllThree ==
    (Verified /\ res.err = Nil) =>
        /\ DecodeString(env.Signature).ok
        /\ SomeCertValidates(env)
        /\ now <= env.Expiration

\* C1 witness: Verify succeeds after a field assignment and a rotation that
\* put another certificate in front of the signer's.
C1_Witness ==
    /\ Verified /\ res.err = Nil
    /\ muts > 0
    /\ Len(certs) = 2 /\ certs[1] # RSACert(SignerKey)

\* C3 as stated: with the old signature, a change of any one signed field to
\* a different value makes Verify fail with the signature-mismatch error
\* (the certificates having been fetched and the last one being usable).
C3_AnyChangeIsMismatch ==
    (Verified /\ HoldsOldSignature /\ Cardinality(ChangedFields) = 1 /\ LastCertUsable)
        => res.err = ErrVerification

\* C3 amended: with the old signature, a change of one signed field that
\* changes Method, URL, the whole second of Expiration or the block of sorted
\* header lines never lets Verify return nil or ErrExpired: Verify returns
\* VerifyBytes's error, which is the RSA verification error when the fetch
\* succeeded and the last published certificate is a usable RSA certificate.
C3_TamperDetected ==
    (Verified /\ HoldsOldSignature /\ Cardinality(ChangedFields) = 1 /\ ChangesCanonicalPart)
        => /\ res.err \notin { Nil, ErrExpired, ErrCorruptInput }
           /\ LastCertUsable => res.err = ErrVerification

\* C3 witness: a header's value sequence was changed after Sign and Verify
\* answered with the RSA verification error.
C3_Witness ==
    /\ Verified /\ HoldsOldSignature
    /\ ChangedFields = { "Headers" }
    /\ ChangesCanonicalPart
    /\ res.err = ErrVerification

\* C4 as stated: Verify on an envelope whose Signature is empty or is not
\* base64 fails with the base64 decoding error, without fetching the
\* certificates and without an RSA check (the certificate source being up).
C4_UnsignedIsEncodingError ==
    (Verified /\ res.err # ErrFetch
        /\ (env.Signature = << >> \/ ~DecodeString(env.Signature).ok))
        => /\ res.err = ErrCorruptInput
           /\ res.fetches = 0
           /\ res.rsaCalls = 0

\* The cryptographic check of the last Verify had everything it needs: the
\* text decoded, the fetch succeeded and a published certificate validates.
CryptoValid ==
    /\ DecodeString(env.Signature).ok
    /\ res.err # ErrFetch
    /\ SomeCertValidates(env)

\* C5: for an envelope whose signature is cryptographically valid, Verify
\* returns ErrExpired exactly when the current time is strictly after
\* Expiration, and nil when it is equal to or before Expiration.
C5_ExpirationBoundary ==
    (Verified /\ CryptoValid) =>
        /\ res.err = ErrExpired <=> now > env.Expiration
        /\ now <= env.Expiration => res.err = Nil

\* C5 witness: a validly signed envelope verified a fraction of a second
\* after its expiration, within the same whole second.
C5_Witness ==
    /\ Verified /\ CryptoValid
    /\ now = env.Expiration + 1
    /\ Unix(now) = Unix(env.Expiration)
    /\ res.err = ErrExpired

\* C6 as stated: a tampered and expired envelope yields the signature-mismatch
\* error, and an untampered expired envelope yields ErrExpired (the
\* certificates having been fetched, the signer's being the only one).
C6_TamperedExpiredIsMismatch ==
    (Verified /\ HoldsOldSignature /\ now > env.Expiration
        /\ res.err # ErrFetch /\ certs = << RSACert(SignerKey) >>) =>
        IF Fields(env) # signed THEN res.err = ErrVerification
        ELSE res.err = ErrExpired

\* C6 amended: a text that does not decode is answered before any fetch;
\* ErrExpired is returned only when a published certificate validated the
\* signature; an expired envelope whose canonical string no longer is the
\* signed one gets VerifyBytes's error and never ErrExpired; and an expired
\* envelope with the signed fields gets ErrExpired when the fetch succeeds and
\* the signer's certificate is published.
C6_CheckOrdering ==
    Verified =>
        /\ ~DecodeString(env.Signature).ok => (res.err = ErrCorruptInput /\ res.fetches = 0)
        /\ res.err = ErrExpired =>
              (SomeCertValidates(env) /\ res.rsaCalls >= 1 /\ now > env.Expiration)
        /\ (HoldsOldSignature /\ now > env.Expiration /\ ChangesCanonicalPart)
              => res.err \notin { Nil, ErrExpired, ErrCorruptInput }
        /\ (HoldsOldSignature /\ now > env.Expiration /\ Fields(env) = signed
              /\ res.err # ErrFetch /\ \E i \in DOMAIN certs : certs[i] = RSACert(SignerKey))
              => res.err = ErrExpired

\* C6 witness: an envelope that is both tampered (another URL) and expired is
\* verified and gets the RSA verification error.
C6_Witness ==
    /\ Verified /\ HoldsOldSignature
    /\ env.URL # signed.URL
    /\ now > env.Expiration
    /\ res.err = ErrVerification

\* C17: a Sign whose oracle call failed returns the oracle's error after one
\* oracle call and leaves Signature and every other field of the envelope as
\* they were; a Sign that succeeded made one oracle call, changed no field
\* but Signature, and stored the base64 text of a signature that the signer's
\* key validates over the canonical string of the envelope.
C17_SignFrame ==
    [][ res'.op = "Sign" =>
          /\ res'.oracleCalls = 1
          /\ res'.err # Nil => (res'.err = ErrSignBytes /\ env' = env)
          /\ res'.err = Nil =>
                /\ Fields(env') = Fields(env)
                /\ env'.Signature =
                      EncodeToString(SignBytes(SignerKey, signingString(env, AnyOrder(env))))
                /\ \A order \in Orders(env.Headers) :
                      VerifyPKCS1v15(SignerKey, SHA256(signingString(env, order)),
                                     DecodeString(env'.Signature).bytes) ]_vars

\* C17 witness: Sign failed on an envelope that had been signed and then
\* changed, and the Signature field still holds the earlier signature.
C17_Witness ==
    /\ res.op = "Sign"
    /\ res.err = ErrSignBytes
    /\ HoldsOldSignature
    /\ Fields(env) # signed

(***************************************************************************)
(* Properties of VerifyBytes (SpecBytes).                                  *)
(***************************************************************************)
\* The last call was a VerifyBytes whose certificate fetch succeeded.
Scanned == res.op = "VerifyBytes" /\ res.err # ErrFetch

\* The certificate at position i validates sigBytes over payload.
Matches(i) ==
    Usable(certs[i]) /\ VerifyPKCS1v15(certs[i].key, SHA256(payload), sigBytes)

MatchingPositions == { i \in DOMAIN certs : Matches(i) }

\* The smallest member of a non-empty set of positions.
First(S) == CHOOSE i \in S : \A j \in S : i <= j

\* The failure the loop body records for a certificate that does not match.
FailureOf(c) ==
    CASE ~c.pem -> ErrPemDecodeFailure
      [] c.pem /\ ~c.x509 -> ErrX509Parse
      [] c.pem /\ c.x509 /\ ~c.rsa -> ErrNotRSAPublicKey
      [] OTHER -> ErrVerification

\* C7: VerifyBytes returns nil if and only if some entry of the fetched set
\* is a usable RSA certificate whose key validates the signature, wherever it
\* stands and whatever precedes it; a failure never ends the scan early (a
\* failing call examined every entry) and nothing after the first matching
\* entry is examined.
C7_FirstMatchWins ==
    Scanned =>
        /\ res.err = Nil <=> MatchingPositions # {}
        /\ res.err = Nil => res.examined = First(MatchingPositions)
        /\ res.err # Nil => res.examined = Len(certs)

\* C7 witness: the matching certificate stands second, behind an unusable
\* entry and ahead of another one, and the call succeeded.
C7_Witness ==
    /\ Scanned /\ res.err = Nil
    /\ Len(certs) = 3
    /\ ~Usable(certs[1])
    /\ Matches(2)
    /\ res.examined = 2

\* C8 as stated: whenever the set holds a usable RSA certificate and every
\* usable certificate rejects the signature, VerifyBytes fails with the RSA
\* verification error, whatever else the set holds and in whatever order.
C8_MismatchWhateverTheOrder ==
    (Scanned /\ MatchingPositions = {} /\ \E i \in DOMAIN certs : Usable(certs[i]))
        => res.err = ErrVerification

\* C8 amended: whenever the last certificate of the set is a usable RSA
\* certificate and no certificate validates the signature, VerifyBytes fails
\* with the RSA verification error, whatever entries precede the last one.
C8_MismatchWhenLastIsUsable ==
    (Scanned /\ MatchingPositions = {} /\ certs # << >> /\ Usable(certs[Len(certs)]))
        => res.err = ErrVerification

\* C8 witness: an undecodable entry first, a usable RSA certificate of another
\* key last, and the call failed with the RSA verification error.
C8_Witness ==
    /\ Scanned
    /\ Len(certs) >= 2
    /\ ~certs[1].pem
    /\ Usable(certs[Len(certs)])
    /\ sigBytes # << >>
    /\ res.err = ErrVerification

\* C9: when no certificate matches, VerifyBytes returns the failure recorded
\* for the last certificate in the order supplied, and it returns
\* ErrNoPublicCertificates if and only if the fetched set is empty.
C9_FallbackIsLastFailure ==
    Scanned =>
        /\ (res.err # Nil /\ certs # << >>) => res.err = FailureOf(certs[Len(certs)])
        /\ res.err = ErrNoPublicCertificates <=> certs = << >>

\* C9 witness: a usable but non-matching RSA certificate is followed by an
\* entry without an RSA key, and the call returned ErrNotRSAPublicKey.
C9_Witness ==
    /\ Scanned
    /\ Len(certs) >= 2
    /\ Usable(certs[1])
    /\ certs[Len(certs)] = NotRSA
    /\ res.err = ErrNotRSAPublicKey

(***************************************************************************)
(* Properties of signingString (SpecCanon).                                *)
(***************************************************************************)
\* C10: two envelopes with the same Method, URL and header mapping and with
\* expirations in the same whole second get the identical canonical string,
\* in whatever order each map is ranged over and whatever the sub-second
\* parts of the expirations.
C10_CanonicalDeterminism ==
    res.op = "signingString" => res.first = res.second

\* C10 witness: three headers visited in two different orders and two
\* expirations that differ within their second.
C10_Witness ==
    /\ res.op = "signingString"
    /\ Cardinality(DOMAIN env.Headers) = 3
    /\ res.order1 # res.order2
    /\ twin.Expiration # env.Expiration
    /\ Unix(twin.Expiration) = Unix(env.Expiration)

\* The line the canonical string is to hold for the header k of p.
LineOf(p, k) == CanonicalHeaderKey(k) \o << ":", " " >> \o Join(p.Headers[k], << "," >>)

NamesClash(p) ==
    \E j, k \in DOMAIN p.Headers : j # k /\ CanonicalHeaderKey(j) = CanonicalHeaderKey(k)

\* C2 as stated (for a method that is not empty, a URL that url.URL prints
\* unchanged and header names that differ in more than case): the envelope
\* read back from HTTPRequest(e) has e's Method, URL, whole-second Expiration
\* and Signature and e's canonical string, and Verify on it succeeds while
\* the signer's certificate is fetched and its expiration has not passed.
C2_RoundTrip ==
    ( /\ res.op = "VerifyParsed"
      /\ env.Method # << >> /\ URLString(env.URL) = env.URL /\ ~NamesClash(env)
      /\ res.err # ErrFetch
      /\ \E i \in DOMAIN certs : certs[i] = RSACert(SignerKey)
      /\ now <= parsed.Expiration )
    => /\ parsed.Method = env.Method
       /\ parsed.URL = env.URL
       /\ Unix(parsed.Expiration) = Unix(env.Expiration)
       /\ parsed.Signature = env.Signature
       /\ signingString(parsed, AnyOrder(parsed)) = signingString(env, AnyOrder(env))
       /\ res.err = Nil

\* C20: Verify and HTTPRequest (and signingString, which they and Sign call)
\* leave Method, URL, Expiration, the selected headers and Signature as they
\* were, whether they succeed or fail, and so do ParseHTTPRequest and Verify
\* on the envelope read back; the Signature field changes only in a Sign that
\* returned nil, so that it holds the empty initial value or what the most
\* recent successful Sign stored, for fields that are still the signed ones.
C20_OnlySignMutates ==
    [][ /\ res'.op \in { "Verify", "HTTPRequest", "ParseHTTPRequest", "VerifyParsed" }
              => env' = env
        /\ res'.op = "VerifyParsed" => parsed' = parsed
        /\ env' # env => (res'.op = "Sign" /\ res'.err = Nil /\ Fields(env') = Fields(env))
        /\ IF signed' = None THEN env'.Signature = << >>
           ELSE /\ Fields(env') = signed'
                /\ env'.Signature =
                      EncodeToString(SignBytes(SignerKey,
                                               signingString(signed', AnyOrder(signed')))) ]_vars

\* C20 witness: after Sign and HTTPRequest, a Verify on the producer's
\* envelope failed and the envelope, with two headers, still holds the
\* signature Sign stored.
C20_Witness ==
    /\ res.op = "Verify"
    /\ res.err # Nil
    /\ req # None
    /\ HoldsOldSignature
    /\ Cardinality(DOMAIN env.Headers) = 2

(***************************************************************************)
(* Properties of the HTTP gate (SpecHTTP).                                 *)
(***************************************************************************)
Served == res.op = "ServeHTTP"

\* What ParseHTTPRequest makes of the request at hand.
Received == ParseHTTPRequest(req)

\* The texts a Signature-Expiration field may hold.
WellFormedTimestamps == { FormatInt(n) \o << "Z" >> : n \in 0 .. MaxTime }

\* The request carries no signature.
ReqUnsigned == HeaderGet(req.Header, SignatureKey) = << >>

\* The signature text is not base64.
ReqBadEncoding ==
    LET text == HeaderGet(req.Header, SignatureKey)
    IN  text # << >> /\ Head(text) # "b64"

\* The expiration field is missing or is no timestamp.
ReqMalformed == HeaderGet(req.Header, ExpirationKey) \notin WellFormedTimestamps

\* The canonical string of the request at hand (a request that parses).
ReqCanonical == signingString(Received.env, AnyOrder(Received.env))

\* The request carries a signature made with the other application's key.
ReqWrongKey ==
    /\ ~ReqMalformed
    /\ HeaderGet(req.Header, SignatureKey) = EncodeToString(SignBytes(ForeignKey, ReqCanonical))

\* The request carries the producer's signature but no longer the canonical
\* string the producer signed.
ReqTampered ==
    /\ ~ReqMalformed
    /\ signed # None
    /\ HeaderGet(req.Header, SignatureKey) = env.Signature
    /\ ReqCanonical # signingString(signed, AnyOrder(signed))

\* No published certificate validates the signature the request carries.
ReqMismatch == ~ReqMalformed /\ ~ReqBadEncoding /\ ~SomeCertValidates(Received.env)

\* The request's expiration has passed.
ReqExpired == ~ReqMalformed /\ now > Received.env.Expiration

\* C12: ServeHTTP invokes the wrapped function if and only if
\* ParseHTTPRequest succeeded and Verify returned nil; it does not invoke it
\* for a request that is unsigned, malformed, signed with a key that is not
\* published, tampered or expired; and when it does not invoke it, it has
\* written a status other than 200.
C12_HTTPGate ==
    Served =>
        /\ res.invoked <=> (res.parseErr = Nil /\ res.err = Nil)
        /\ res.parseErr = Nil <=> ~ReqMalformed
        /\ (ReqUnsigned \/ ReqBadEncoding \/ ReqMalformed \/ ReqWrongKey \/ ReqTampered
              \/ ReqMismatch \/ ReqExpired) => ~res.invoked
        /\ ~res.invoked => res.status \in { StatusBadRequest, StatusInternalServerError }
        /\ res.invoked => res.status = StatusOK

\* C12 witness: the value of a selected header was changed on the way, the
\* request is still within its expiration, and the function was not invoked.
C12_Witness ==
    /\ Served
    /\ ReqTampered
    /\ ~ReqExpired
    /\ HeaderAt(req.Header, << "A" >>) = << << "y" >> >>
    /\ ~res.invoked

\* C13 as stated (the certificates having been fetched and the signer's being
\* published): a malformed request, a signature that is not base64 and a
\* signature no certificate validates get the generic bad-request answer, an
\* expired request with a valid signature gets the bad-request answer that
\* says it expired, and no rejection is answered with a server error.
C13_ClientErrorsAreBadRequests ==
    (Served /\ res.err # ErrFetch /\ \E i \in DOMAIN certs : certs[i] = RSACert(SignerKey)) =>
        /\ (ReqMalformed \/ ReqBadEncoding \/ ReqMismatch)
              => (res.status = StatusBadRequest /\ res.body # ExpiredBody)
        /\ (~ReqMalformed /\ ~ReqBadEncoding /\ ~ReqMismatch /\ ReqExpired)
              => (res.status = StatusBadRequest /\ res.body = ExpiredBody)
        /\ ~res.invoked => res.status # StatusInternalServerError

\* C14: ParseHTTPRequest fails and returns no envelope when the
\* Signature-Expiration field is missing or is no timestamp, and succeeds
\* otherwise; a request without a Signed-Headers list parses into an envelope
\* with an empty header mapping, whose canonical string is the three leading
\* parts without any header line.
C14_DeserializationErrors ==
    res.op = "ParseHTTPRequest" =>
        /\ ReqMalformed => (res.err # Nil /\ parsed = None)
        /\ ~ReqMalformed => (res.err = Nil /\ parsed # None)
        /\ (~ReqMalformed /\ SignedHeadersKey \notin DOMAIN req.Header) =>
              /\ DOMAIN parsed.Headers = {}
              /\ signingString(parsed, << >>) =
                    parsed.Method \o << "\n" >> \o parsed.URL \o << "\n" >>
                      \o FormatInt(Unix(parsed.Expiration))

\* C14 witness: the Signed-Headers list was taken off a request that still
\* carries the header the producer selected, and the request parsed.
C14_Witness ==
    /\ res.op = "ParseHTTPRequest"
    /\ res.err = Nil
    /\ SignedHeadersKey \notin DOMAIN req.Header
    /\ << "A" >> \in DOMAIN req.Header
    /\ parsed # None

(***************************************************************************)
(* Properties of the selected headers (SpecSelect).                        *)
(***************************************************************************)
Compared == res.op = "Compare"

\* The header names the list Signed-Headers of r holds, and the values r
\* carries under the name k.
Named(r) == Range(HeaderAt(r.Header, SignedHeadersKey))
ValuesOf(r, k) == HeaderAt(r.Header, CanonicalHeaderKey(k))

\* The two requests agree on method, URL, Signature, Signature-Expiration
\* and the list Signed-Headers.
SameFraming(r1, r2) ==
    /\ r1.Method = r2.Method
    /\ r1.URL = r2.URL
    /\ HeaderAt(r1.Header, SignatureKey) = HeaderAt(r2.Header, SignatureKey)
    /\ HeaderAt(r1.Header, ExpirationKey) = HeaderAt(r2.Header, ExpirationKey)
    /\ HeaderAt(r1.Header, SignedHeadersKey) = HeaderAt(r2.Header, SignedHeadersKey)

\* ... and on the values of every header the list names.
AgreeOnSelected(r1, r2) ==
    /\ SameFraming(r1, r2)
    /\ \A k \in Named(r1) : ValuesOf(r1, k) = ValuesOf(r2, k)

\* The two readings gave the same canonical string and the same results.
SameReading ==
    /\ res.canonical = res.otherCanonical
    /\ res.parseErr = res.otherParseErr
    /\ res.err = res.otherErr

\* C21, as stated: two requests that agree on method, URL, Signature,
\* Signature-Expiration, the Signed-Headers list and the values of every
\* header the list names are read into envelopes with the same canonical
\* string and are verified with the same result, whatever other headers they
\* carry; and two requests that differ in the values of a header the list
\* names have different canonical strings.
C21_OnlySelectedHeadersCount ==
    Compared =>
        /\ AgreeOnSelected(req, res.other) => SameReading
        /\ ( /\ SameFraming(req, res.other)
             /\ \E k \in Named(req) : ValuesOf(req, k) # ValuesOf(res.other, k) )
           => res.canonical # res.otherCanonical

\* C21, amended: two requests that agree on method, URL, Signature,
\* Signature-Expiration and the Signed-Headers list are read into envelopes
\* with the same canonical string exactly when every header the list names
\* has the same comma-joined value text in both, whatever other headers they
\* carry; and when the canonical strings are the same Verify returns the same
\* result on both.
C21_SelectedTextCounts ==
    ( Compared /\ SameFraming(req, res.other) ) =>
        /\ res.parseErr = res.otherParseErr
        /\ (res.canonical = res.otherCanonical)
           <=> \A k \in Named(req) :
                   Join(ValuesOf(req, k), << "," >>) = Join(ValuesOf(res.other, k), << "," >>)
        /\ res.canonical = res.otherCanonical => res.err = res.otherErr

\* Two requests that differ only in a header the list does not name, the
\* list naming a header of two values, both verified.
C21_Witness ==
    /\ Compared
    /\ AgreeOnSelected(req, res.other)
    /\ req.Header # res.other.Header
    /\ \E k \in Named(req) : Len(ValuesOf(req, k)) = 2
    /\ res.err = Nil
    /\ res.otherErr = Nil
    /\ res.canonical = res.otherCanonical

(***************************************************************************)
(* Properties of verification under rotation (SpecRotate).                 *)
(***************************************************************************)
\* The remembered calls of VerifyBytes.
BytesCalls == { i \in DOMAIN hist : hist[i].op = "VerifyBytes" }

\* Some certificate of the list validates sigBytes over payload.
ValidatesIn(list) ==
    \E j \in DOMAIN list :
        Usable(list[j]) /\ VerifyPKCS1v15(list[j].key, SHA256(payload), sigBytes)

HasSignerCert(list) == \E j \in DOMAIN list : list[j] = RSACert(SignerKey)

\* C15: every VerifyBytes call fetches the certificate set exactly once; with
\* the set fetched it accepts if and only if a certificate published at the
\* time of the call validates the signature, and two calls made against the
\* same published list with the same fetch outcome return the same; a
\* signature rejected while the signer's certificate was not published is
\* accepted by the next call once it is, and a signature accepted earlier is
\* rejected by the next call once no published certificate validates it.
C15_NoCertificateCaching ==
    /\ \A i \in BytesCalls :
          /\ hist[i].fetches = 1
          /\ hist[i].fetchOk => (hist[i].err = Nil <=> ValidatesIn(hist[i].published))
    /\ \A i, j \in BytesCalls :
          (hist[i].published = hist[j].published /\ hist[i].fetchOk = hist[j].fetchOk)
              => hist[i] = hist[j]
    /\ (BytesCalls = { 1, 2 } /\ hist[1].fetchOk /\ hist[2].fetchOk) =>
          /\ (hist[1].err # Nil /\ HasSignerCert(hist[2].published)) => hist[2].err = Nil
          /\ (hist[1].err = Nil /\ ~ValidatesIn(hist[2].published)) => hist[2].err # Nil

\* C15 witness: a call rejected the signature while the signer's certificate
\* was not published, and the next call, made after it was added behind
\* another entry, accepted it.
C15_Witness ==
    /\ BytesCalls = { 1, 2 }
    /\ hist[1].fetchOk /\ hist[1].err # Nil /\ ~HasSignerCert(hist[1].published)
    /\ hist[1].published # << >>
    /\ hist[2].fetchOk /\ hist[2].err = Nil
    /\ Len(hist[2].published) > Len(hist[1].published)

\* C16: a call whose certificate fetch failed, of VerifyBytes or of Verify,
\* returned the fetch error, examined no certificate, made no RSA check,
\* fetched once only and did not report success.
C16_FetchFailureIsFatal ==
    \A i \in DOMAIN hist :
        ~hist[i].fetchOk =>
            /\ hist[i].err = ErrFetch
            /\ hist[i].err # Nil
            /\ hist[i].examined = 0
            /\ hist[i].rsaCalls = 0
            /\ hist[i].fetches = 1

\* C16 witness: Verify on the validly signed envelope failed on the fetch
\* although the signer's certificate is published, right after a call that
\* had succeeded against the same list.
C16_Witness ==
    /\ Len(hist) = 2
    /\ hist[1].op = "Verify" /\ hist[1].fetchOk /\ hist[1].err = Nil
    /\ hist[2].op = "Verify" /\ ~hist[2].fetchOk
    /\ hist[2].published = hist[1].published
    /\ hist[2].err = ErrFetch

(***************************************************************************)
(* Properties of Queue.Run (SpecQueue).                                    *)
(***************************************************************************)
\* The payload of the task is base64 and its queue name has four parts.
WellFormedTask(k) ==
    /\ (k.PayloadBase64 = << >> \/ Head(k.PayloadBase64) = "b64")
    /\ Len(SelectSeq(k.QueueName, LAMBDA c : c = "/")) = 3

\* C18: Run issues a delete for a task only after the payload decoded, the
\* queue name parsed into four parts and the processor returned nil for it;
\* an attempt in which the processor failed, the payload did not decode or
\* the name did not parse issues no delete; every attempt in which the
\* processor returned nil issues a delete; and a task is gone from the queue
\* only if such an attempt was made on it, so that a task that was never
\* processed with success is still there for a later lease.
C18_DeleteOnlyAfterSuccess ==
    /\ \A a \in attempts :
          /\ a.deleteIssued <=> (a.decoded /\ a.named /\ a.procErr = Nil)
          /\ a.procErr = Nil => a.deleteIssued
          /\ a.procErr # NotCalled => (a.decoded /\ a.named)
    /\ \A id \in TaskIds :
          id \notin DOMAIN queue =>
              \E a \in attempts : a.id = id /\ a.deleteIssued /\ a.procErr = Nil
    /\ \A id \in DOMAIN queue :
          ~WellFormedTask(queue[id].task) =>
              \A a \in attempts : a.id = id => ~a.deleteIssued

\* C18 witness: the processor failed for task 1 and succeeded on a later
\* lease of task 2; task 2 is gone from the queue and task 1 is still in it.
C18_Witness ==
    /\ \E a \in attempts : a.id = 1 /\ a.procErr = ErrProcessor
    /\ \A a \in attempts : a.id = 1 => ~a.deleteIssued
    /\ \E a \in attempts : a.id = 2 /\ a.procErr = ErrProcessor
    /\ \E a \in attempts : a.id = 2 /\ a.deleteIssued
    /\ DOMAIN queue = { 1 }

\* The client is set up and Run has not returned.
Looping == run.pc \in { "check", "lease", "sleep", "process" }

\* C22: once the queue client has been set up, Run goes from the loop
\* condition to a lease while the context is live; a lease that fails or
\* hands out nothing leads to the sleep and from there to the loop condition
\* again, never to a return; Run returns only from a loop condition that
\* found the context done, and what it returns is the context's error; and,
\* Run being scheduled, once the context is done Run eventually returns that
\* error.
C22_RunLifetime ==
    /\ [][ ( Looping /\ run'.pc = "returned" )
             => ( run.pc = "check" /\ ctx # Nil /\ run'.ret = ctx ) ]_vars
    /\ [][ ( run.pc = "check" /\ ctx = Nil /\ run' # run ) => run'.pc = "lease" ]_vars
    /\ [][ ( run.pc = "lease" /\ run' # run )
             => ( run'.pc = IF run'.batch = << >> THEN "sleep" ELSE "process" ) ]_vars
    /\ [][ ( run.pc = "sleep" /\ run' # run ) => run'.pc = "check" ]_vars
    /\ []( ( run.pc = "returned" /\ run.ret # ErrClient ) => ( ctx # Nil /\ run.ret = ctx ) )
    /\ ( Looping /\ ctx # Nil ) ~> ( run.pc = "returned" /\ run.ret = ctx )

\* Run has processed a task and has returned the error of a context whose
\* deadline passed.
C22_Witness ==
    /\ run.pc = "returned"
    /\ ctx = DeadlineExceeded
    /\ run.ret = DeadlineExceeded
    /\ attempts # {}

(***************************************************************************)
(* Properties of concurrent callers (SpecConc).                            *)
(***************************************************************************)
\* What the call c returns when it runs alone on the envelope it started
\* with, against the set it fetched and the time it read.
AloneResult(c) ==
    IF c.op = "Sign"
    THEN Sign(c.start, c.err = Nil, << >>).err
    ELSE Verify(c.start, c.fetched, c.fetchOk, c.readTime, << >>).err

\* The envelope the call c leaves when it runs alone.
AloneEnvelope(c) ==
    IF c.op = "Sign" THEN Sign(c.start, c.err = Nil, << >>).env ELSE c.start

\* C19: with calls of Sign and Verify interleaved, each on the envelope of
\* its caller, a call that returned gives the result and leaves its envelope
\* in the state it would if it had run alone on that envelope against the
\* certificates it fetched; and while a call is in progress nothing but the
\* call itself has changed its caller's envelope.
C19_IsolatedCalls ==
    \A i \in Callers :
        /\ calls[i].pc = "returned" =>
              /\ calls[i].err = AloneResult(calls[i])
              /\ envs[i] = AloneEnvelope(calls[i])
        /\ calls[i].pc \in { "oracle", "store", "fetch", "scan", "expiry" } =>
              envs[i] = calls[i].start

\* C19 witness: caller 1's Verify has returned nil for the envelope it had
\* signed, against certificates fetched before the set was emptied, while
\* caller 2's Sign is between the oracle call and the store.
C19_Witness ==
    /\ calls[1].op = "Verify" /\ calls[1].pc = "returned" /\ calls[1].err = Nil
    /\ calls[1].fetched # certs
    /\ calls[2].op = "Sign" /\ calls[2].pc = "store"
    /\ envs[2].Signature = << >>

====
